---- MODULE Spec2Model ----
(***************************************************************************)
(* A model of the evm-bench benchmark orchestration (src/src/runner.rs,    *)
(* src/src/benchmarks.rs, src/src/evm.rs and the backend executors).       *)
(*                                                                         *)
(* Strings that the program parses (the backend selectors) are sequences   *)
(* of atoms: an atom is either the separator ",", the blank " ", or a      *)
(* chunk of identifier characters such as "revm".  The chunks are          *)
(* prefix-free, so two atom sequences are equal exactly when the strings   *)
(* they spell are equal.  Option<T> is a sequence of length at most one.   *)
(***************************************************************************)
EXTENDS Integers, Sequences, FiniteSets, TLC

\* ------------------------------------------------------------------ bounds

\* longest backend-list selector, in atoms
MaxLen == 3
\* largest number of compiled contracts handed to the catalog
MaxCompiled == 2

\* ----------------------------------------------------------------- strings

COMMA == ","
SPACE == " "
Atoms == {"revm", "ethrex", COMMA, SPACE}

None == <<>>
Some(x) == <<x>>

REVM == <<"revm">>
GETH == <<"geth">>
GUILLOTINE == <<"guillotine">>
ETHREX == <<"ethrex">>
NONEXISTENT == <<"nonexistent">>
EMPTY == <<>>

\* all strings of at most n atoms
Strings(n) == UNION {[1..k -> Atoms] : k \in 0..n}

Range(s) == {s[k] : k \in 1..Len(s)}
NoDup(s) == \A a, b \in 1..Len(s) : s[a] = s[b] => a = b

\* str::split(','): n separators give n + 1 pieces, the empty string one piece
RECURSIVE Split(_)
Split(s) ==
    IF \A k \in 1..Len(s) : s[k] # COMMA
    THEN <<s>>
    ELSE LET k == CHOOSE k \in 1..Len(s) :
                      s[k] = COMMA /\ \A m \in 1..(k - 1) : s[m] # COMMA
         IN <<SubSeq(s, 1, k - 1)>> \o Split(SubSeq(s, k + 1, Len(s)))

RECURSIVE TrimStart(_)
TrimStart(t) == IF t # <<>> /\ Head(t) = SPACE THEN TrimStart(Tail(t)) ELSE t

RECURSIVE TrimEnd(_)
TrimEnd(t) ==
    IF t # <<>> /\ t[Len(t)] = SPACE THEN TrimEnd(SubSeq(t, 1, Len(t) - 1)) ELSE t

\* str::trim
Trim(t) == TrimEnd(TrimStart(t))

\* Join putting nothing between the elements
RECURSIVE Join_NoSeparator(_)
Join_NoSeparator(l) ==
    IF l = <<>> THEN <<>> ELSE l[1] \o Join_NoSeparator(Tail(l))

\* Vec<String>::join(",")
RECURSIVE Join(_)
Join(l) ==
    IF l = <<>> THEN <<>>
    ELSE IF Len(l) = 1 THEN l[1]
    ELSE l[1] \o <<COMMA>> \o Join(Tail(l))

\* ------------------------------------------------- backend selection

\* evms_list.split(',').map(|s| s.trim().to_string()).collect()
SplitTrim(s) == [k \in 1..Len(Split(s)) |-> Trim(Split(s)[k])]

\* determine_evms looking at the list selector before the all-available one
determine_evms_ListFirst(evm, evms, all, geth_found) ==
    IF evms # None THEN SplitTrim(evms[1])
    ELSE IF all
    THEN <<REVM>> \o (IF geth_found THEN <<GETH>> ELSE <<>>) \o <<GUILLOTINE>>
    ELSE IF evm # None THEN <<evm[1]>>
    ELSE <<REVM>>

\* geth_found is the result of the lookup of an `evm` binary
determine_evms(evm, evms, all, geth_found) ==
    IF all
    THEN <<REVM>> \o (IF geth_found THEN <<GETH>> ELSE <<>>) \o <<GUILLOTINE>>
    ELSE IF evms # None THEN SplitTrim(evms[1])
    ELSE IF evm # None THEN <<evm[1]>>
    ELSE <<REVM>>

\* the identifiers the dispatch of execute_bytecode knows
KnownEvms == {REVM, GETH, GUILLOTINE, ETHREX}

\* execute_geth fails unconditionally
Implemented(evm_name) == evm_name \in KnownEvms /\ evm_name # GETH

\* ------------------------------------------------------- benchmark catalog

\* the rule table of get_evm_benchmarks: artifact, key, category, gas
Rules ==
    { [artifact |-> "TenThousandHashes", name |-> "ten_thousand_hashes",
       description |-> "Execute 10,000 keccak256 hash operations",
       category |-> "compute", gas |-> 30000000],
      [artifact |-> "SnailTracer", name |-> "snailtracer",
       description |-> "Ray tracing benchmark (compute intensive)",
       category |-> "compute", gas |-> 1000000000],
      [artifact |-> "ERC20Transfer", name |-> "erc20_transfer_bench",
       description |-> "Benchmark ERC20 transfer operations",
       category |-> "token", gas |-> 30000000],
      [artifact |-> "ERC20Mint", name |-> "erc20_mint_bench",
       description |-> "Benchmark ERC20 minting operations",
       category |-> "token", gas |-> 30000000],
      [artifact |-> "ERC20ApprovalTransfer", name |-> "erc20_approval_bench",
       description |-> "Benchmark ERC20 approval and transfer operations",
       category |-> "token", gas |-> 30000000] }

RuleOf(bench) == CHOOSE r \in Rules : r.name = bench

\* get_function_selector("Benchmark()"), the first four bytes of the Keccak hash
BenchmarkSelector == "0x30627b7c"

\* get_evm_benchmarks with the ERC20 mint entry built from the ERC20Transfer
\* artifact
get_evm_benchmarks_WrongArtifact(compiled) ==
    LET artifact(r) == IF r.artifact = "ERC20Mint" THEN "ERC20Transfer" ELSE r.artifact
    IN [n \in {r.name : r \in {q \in Rules : artifact(q) \in DOMAIN compiled}} |->
          [name |-> n,
           description |-> RuleOf(n).description,
           category |-> RuleOf(n).category,
           bench_type |-> "evm",
           bytecode |-> compiled[artifact(RuleOf(n))].bytecode,
           calldata |-> BenchmarkSelector,
           gas |-> RuleOf(n).gas]]

get_evm_benchmarks(compiled) ==
    [n \in {r.name : r \in {q \in Rules : q.artifact \in DOMAIN compiled}} |->
        [name |-> n,
         description |-> RuleOf(n).description,
         category |-> RuleOf(n).category,
         bench_type |-> "evm",
         bytecode |-> compiled[RuleOf(n).artifact].bytecode,
         calldata |-> BenchmarkSelector,
         gas |-> RuleOf(n).gas]]

\* The compiled-contract maps the compiler can hand over: non-empty (compile_all
\* fails on an empty map), every artifact with a bytecode of its own.
Artifacts == {r.artifact : r \in Rules} \cup {"Counter"}
BytecodeOf(a) ==
    CASE a = "TenThousandHashes" -> "6080604052"
      [] a = "SnailTracer" -> "60806040526004"
      [] a = "ERC20Transfer" -> "608060405234"
      [] a = "ERC20Mint" -> "60806040523480"
      [] a = "ERC20ApprovalTransfer" -> "6080604052348015"
      [] OTHER -> "6000"
CompiledInputs ==
    { [a \in S |-> [name |-> a, bytecode |-> BytecodeOf(a), path |-> a]] :
        S \in {T \in SUBSET Artifacts : 1 <= Cardinality(T) /\ Cardinality(T) <= MaxCompiled} }

\* all orders in which a HashMap with the key set S can be iterated
Orders(S) ==
    {p \in [1..Cardinality(S) -> S] : \A a, b \in 1..Cardinality(S) : p[a] = p[b] => a = b}

\* ------------------------------------------------------------------- state

VARIABLES
    pc,                  \* position in run_benchmarks
    hyperfine_installed, \* environment: `hyperfine` is on the PATH
    iterations, warmup,  \* arguments of run_benchmarks
    which_checks,        \* how often the presence of hyperfine was checked
    compiled_contracts,  \* result of compile_all
    benchmarks,          \* the catalog
    evms_to_run,
    benchmark_name,      \* argument of run_benchmarks, as read at the selection
    benchmarks_to_run,
    bi, ei,              \* the pair the sweep is at: benchmarks_to_run[bi], evms_to_run[ei]
    hyperfine_log,       \* the invocations of the timing tool, in order
    all_results,
    error,               \* message of the error run_benchmarks returned
    shown,               \* the report handed to display::show_results
    output,              \* argument of run_benchmarks, as read at the save
    file,                \* content of the file at the output path
    second_run, prev,    \* a second run of the program and what the first one did
    sel_list, sel_evm, sel_evms, sel_all, sel_geth, sel_result,  \* determine_evms on its own
    x_pc,                \* position in execute_bytecode
    x_evm, x_bytecode, x_calldata, x_internal_runs,  \* its arguments
    x_run,               \* the loop counter of the backend's execute function
    x_engine,            \* the state held by the backend instance
    x_started,           \* the state each execution started from, in order
    x_outcome,           \* how the last execution ended in the engine
    x_result,            \* what execute_bytecode returned
    p_pc,                \* position in the end of run_single_benchmark
    p_iterations,        \* the runs asked of hyperfine
    p_json,              \* the content of hyperfine's export file
    p_parsed,            \* the HyperfineResult read from it
    p_result,            \* what run_single_benchmark returned
    d_pc,                \* position in aggregating, printing and saving a report
    d_results,           \* the measured results to report: benchmark -> backend -> mean
    d_order,             \* the iteration order of the map they were collected into
    d_round,             \* reports finished so far
    d_printed,           \* what show_results printed, per report
    d_json,              \* what was serialized, per report
    e_pc,                \* position in an executor process
    e_entry,             \* which program it is
    e_evm, e_bytecode, e_calldata, e_measure_startup,  \* its arguments
    e_bytes,             \* the decoded bytecode
    e_outcome,           \* how the execution ended in the engine
    e_exit,              \* the exit code of the process
    m_pc,                \* position in a sequence of run_single_benchmark calls
    m_op,                \* the operation they belong to: run or compare
    m_warmup,            \* the warmup runs asked for
    m_call,              \* the number of the call at hand
    m_tmp,               \* the files of the temporary directory: path -> content
    m_path,              \* the scratch path of the call at hand
    m_created,           \* the scratch files created, per call
    m_invocations,       \* the invocations of hyperfine
    m_reads,             \* what was read from the scratch file, per call
    m_results,            \* what the calls returned
    h_pc, h_dir,         \* hex round trip: position and direction
    h_s, h_bytes,        \* the string and the bytes given
    h_decoded, h_encoded,
    w_pc,                \* position in the saving of the report
    w_results,           \* all_results
    w_prev,              \* the file at the output path before the run
    w_json,              \* the serialised report
    w_file,              \* the file at the output path
    w_error,
    g_pc,                \* position in GuillotineExecutor::execute
    g_gas_limit,
    g_engine,            \* what evm.execute returned
    g_result             \* what execute returned

runVars ==
    <<pc, hyperfine_installed, iterations, warmup, which_checks, compiled_contracts,
      benchmarks, evms_to_run, benchmark_name, benchmarks_to_run, bi, ei,
      hyperfine_log, all_results, error, shown, output, file>>
rerunVars == <<second_run, prev>>
selVars == <<sel_list, sel_evm, sel_evms, sel_all, sel_geth, sel_result>>
execVars ==
    <<x_pc, x_evm, x_bytecode, x_calldata, x_internal_runs, x_run, x_engine,
      x_started, x_outcome, x_result>>
parseVars == <<p_pc, p_iterations, p_json, p_parsed, p_result>>
showVars == <<d_pc, d_results, d_order, d_round, d_printed, d_json>>
entryVars ==
    <<e_pc, e_entry, e_evm, e_bytecode, e_calldata, e_measure_startup, e_bytes,
      e_outcome, e_exit>>
hexVars == <<h_pc, h_dir, h_s, h_bytes, h_decoded, h_encoded>>
writeVars == <<w_pc, w_results, w_prev, w_json, w_file, w_error>>
gasVars == <<g_pc, g_gas_limit, g_engine, g_result>>
utilVars == <<hexVars, writeVars, gasVars>>
measureVars ==
    <<m_pc, m_op, m_warmup, m_call, m_tmp, m_path, m_created, m_invocations, m_reads,
      m_results>>
vars ==
    <<runVars, rerunVars, selVars, execVars, parseVars, showVars, entryVars,
      measureVars, utilVars>>

\* ---------------------------------------------------------------- inputs

\* the selectors as the command line hands them over: --evm, --evms and --all
\* exclude each other (cli.rs), compare passes a joined list
SingleIds == {REVM, GETH, GUILLOTINE, ETHREX, NONEXISTENT}
Selections ==
    {[evm |-> None, evms |-> None, all |-> TRUE]}
    \cup {[evm |-> None, evms |-> Some(s), all |-> FALSE] : s \in Strings(MaxLen)}
    \cup {[evm |-> Some(e), evms |-> None, all |-> FALSE] : e \in SingleIds}
    \cup {[evm |-> None, evms |-> None, all |-> FALSE]}

NameInputs == {None} \cup {Some(n) : n \in {r.name : r \in Rules}} \cup {Some("missing")}
OutputInputs == {None, Some("results.json")}
\* the defaults of `run` (and the constants of compare_evms), and a minimal run
RunInputs == {<<10, 3>>, <<1, 0>>}

\* the record hyperfine reports for a command, in milliseconds
HyperfineRuns ==
    {[mean |-> 10, stddev |-> 1, median |-> 10, min |-> 9, max |-> 11]}

\* ----------------------------------------------------------- run_benchmarks

\* a second run of the program is given what the first one was given
SameInput(field, value) == second_run => prev[field] = value

RunInit ==
    /\ pc = "start"
    /\ hyperfine_installed \in BOOLEAN
    /\ \E r \in RunInputs : iterations = r[1] /\ warmup = r[2]
    /\ which_checks = 0
    /\ compiled_contracts = <<>>
    /\ benchmarks = <<>>
    /\ evms_to_run = <<>>
    /\ benchmark_name = None
    /\ benchmarks_to_run = <<>>
    /\ bi = 0
    /\ ei = 0
    /\ hyperfine_log = <<>>
    /\ all_results = <<>>
    /\ error = ""
    /\ shown = None
    /\ output = None
    /\ file = None

Fail(msg) ==
    /\ pc' = "failed"
    /\ error' = msg

\* CheckHyperfine without the early return: the run goes on to compile
CheckHyperfine_Unchecked ==
    /\ pc = "start"
    /\ which_checks' = which_checks + 1
    /\ pc' = "compile"
    /\ UNCHANGED <<hyperfine_installed, iterations, warmup, compiled_contracts,
                   benchmarks, evms_to_run, benchmark_name, benchmarks_to_run, bi, ei,
                   hyperfine_log, all_results, error, shown, output, file>>

\* which::which("hyperfine").context(..)?
CheckHyperfine ==
    /\ pc = "start"
    /\ which_checks' = which_checks + 1
    /\ IF hyperfine_installed
       THEN pc' = "compile" /\ UNCHANGED error
       ELSE Fail("hyperfine not found")
    /\ UNCHANGED <<hyperfine_installed, iterations, warmup, compiled_contracts,
                   benchmarks, evms_to_run, benchmark_name, benchmarks_to_run, bi, ei,
                   hyperfine_log, all_results, shown, output, file>>

\* ContractCompiler::new()?.compile_all()?, get_evm_benchmarks, the is_empty check
LoadBenchmarks ==
    /\ pc = "compile"
    /\ \/ /\ Fail("compilation failed")
          /\ UNCHANGED <<compiled_contracts, benchmarks>>
       \/ \E compiled \in CompiledInputs :
            /\ SameInput("compiled_contracts", compiled)
            /\ compiled_contracts' = compiled
            /\ benchmarks' = get_evm_benchmarks(compiled)
            /\ IF DOMAIN get_evm_benchmarks(compiled) = {}
               THEN Fail("No benchmarks available")
               ELSE pc' = "select_evms" /\ UNCHANGED error
    /\ UNCHANGED <<hyperfine_installed, iterations, warmup, which_checks, evms_to_run,
                   benchmark_name, benchmarks_to_run, bi, ei, hyperfine_log,
                   all_results, shown, output, file>>

\* let evms_to_run = determine_evms(evm, evms, all)?
DetermineEvms ==
    /\ pc = "select_evms"
    /\ \E sel \in Selections, geth_found \in BOOLEAN :
          /\ SameInput("evms_to_run", determine_evms(sel.evm, sel.evms, sel.all, geth_found))
          /\ evms_to_run' = determine_evms(sel.evm, sel.evms, sel.all, geth_found)
    /\ pc' = "select_benchmarks"
    /\ UNCHANGED <<hyperfine_installed, iterations, warmup, which_checks,
                   compiled_contracts, benchmarks, benchmark_name, benchmarks_to_run,
                   bi, ei, hyperfine_log, all_results, error, shown, output, file>>

\* SelectedBenchmarks falling back to the whole catalog for a name it does not hold
SelectedBenchmarks_Fallback(name) ==
    IF name # None /\ name[1] \in DOMAIN benchmarks
    THEN {<< <<name[1], benchmarks[name[1]]>> >>}
    ELSE {[k \in 1..Len(p) |-> <<p[k], benchmarks[p[k]]>>] : p \in Orders(DOMAIN benchmarks)}

\* the benchmarks_to_run of a name: the named entry, or the catalog in the order
\* the HashMap happens to iterate
SelectedBenchmarks(name) ==
    IF name # None
    THEN IF name[1] \in DOMAIN benchmarks
         THEN {<< <<name[1], benchmarks[name[1]]>> >>}
         ELSE {}
    ELSE {[k \in 1..Len(p) |-> <<p[k], benchmarks[p[k]]>>] : p \in Orders(DOMAIN benchmarks)}

SelectBenchmarks ==
    /\ pc = "select_benchmarks"
    /\ \E name \in NameInputs :
          /\ SameInput("benchmark_name", name)
          /\ benchmark_name' = name
          /\ IF SelectedBenchmarks(name) = {}
             THEN /\ Fail("Benchmark not found")
                  /\ UNCHANGED <<benchmarks_to_run, bi, ei>>
             ELSE /\ benchmarks_to_run' \in SelectedBenchmarks(name)
                  /\ bi' = 1
                  /\ ei' = 1
                  /\ pc' = "sweep"
                  /\ UNCHANGED error
    /\ UNCHANGED <<hyperfine_installed, iterations, warmup, which_checks,
                   compiled_contracts, benchmarks, evms_to_run, hyperfine_log,
                   all_results, shown, output, file>>

\* BenchCmd with a gas limit of its own for one backend
BenchCmd_BackendGas(evm_name, benchmark) ==
    [evm |-> evm_name, bytecode |-> benchmark.bytecode,
     calldata |-> benchmark.calldata,
     gas |-> IF evm_name = GUILLOTINE THEN 30000000 ELSE benchmark.gas]

\* the command hyperfine is given for a pair
BenchCmd(evm_name, benchmark) ==
    [evm |-> evm_name, bytecode |-> benchmark.bytecode,
     calldata |-> benchmark.calldata, gas |-> benchmark.gas]

\* StartMeasure entering the pair into the result map before hyperfine has run
StartMeasure_RecordsEarly ==
    /\ pc = "sweep"
    /\ bi <= Len(benchmarks_to_run)
    /\ \/ /\ \E msg \in {"Failed to get current executable path",
                          "Failed to create the scratch file"} : Fail(msg)
          /\ UNCHANGED <<hyperfine_log, all_results>>
       \/ /\ pc' = "measuring"
          /\ hyperfine_log' = Append(hyperfine_log,
                [bench |-> benchmarks_to_run[bi][1],
                 cmd |-> BenchCmd(evms_to_run[ei], benchmarks_to_run[bi][2]),
                 runs |-> iterations, warmup |-> warmup])
          /\ all_results' = (benchmarks_to_run[bi][1] :>
                ((evms_to_run[ei] :> [name |-> benchmarks_to_run[bi][2].name,
                                      evm |-> evms_to_run[ei], mean |-> 0, stddev |-> 0,
                                      median |-> 0, min |-> 0, max |-> 0])
                 @@ (IF benchmarks_to_run[bi][1] \in DOMAIN all_results
                     THEN all_results[benchmarks_to_run[bi][1]] ELSE <<>>)))
                @@ all_results
          /\ UNCHANGED error
    /\ UNCHANGED <<hyperfine_installed, iterations, warmup, which_checks,
                   compiled_contracts, benchmarks, evms_to_run, benchmark_name,
                   benchmarks_to_run, bi, ei, shown, output, file>>

\* run_single_benchmark up to cmd.status(): the executable path, the command, the
\* scratch file, and the start of hyperfine
StartMeasure ==
    /\ pc = "sweep"
    /\ bi <= Len(benchmarks_to_run)
    /\ \/ /\ \E msg \in {"Failed to get current executable path",
                          "Failed to create the scratch file"} : Fail(msg)
          /\ UNCHANGED hyperfine_log
       \/ /\ pc' = "measuring"
          /\ hyperfine_log' = Append(hyperfine_log,
                [bench |-> benchmarks_to_run[bi][1],
                 cmd |-> BenchCmd(evms_to_run[ei], benchmarks_to_run[bi][2]),
                 runs |-> iterations, warmup |-> warmup])
          /\ UNCHANGED error
    /\ UNCHANGED <<hyperfine_installed, iterations, warmup, which_checks,
                   compiled_contracts, benchmarks, evms_to_run, benchmark_name,
                   benchmarks_to_run, bi, ei, all_results, shown, output, file>>

\* What a started hyperfine can end with.  The timed command is this program's
\* `execute` subcommand; hyperfine exits non-zero when the command does, which
\* it always does for a backend execute_bytecode cannot run.
MeasureFailures(evm_name) ==
    IF ~hyperfine_installed
    THEN {"Failed to run hyperfine"}
    ELSE IF ~Implemented(evm_name)
    THEN {"Hyperfine failed with exit code"}
    ELSE {"Failed to run hyperfine", "Hyperfine failed with exit code",
          "Failed to read hyperfine results", "Failed to parse hyperfine results",
          "No results from hyperfine"}

CanSucceed(evm_name) == hyperfine_installed /\ Implemented(evm_name)

\* all_results.entry(bench_name).or_insert_with(HashMap::new).insert(evm_name, result)
Insert(results, bench_name, evm_name, result) ==
    LET inner == IF bench_name \in DOMAIN results THEN results[bench_name] ELSE <<>>
    IN (bench_name :> ((evm_name :> result) @@ inner)) @@ results

\* FinishMeasure measuring the pair again when its measurement failed
FinishMeasure_Retry ==
    /\ pc = "measuring"
    /\ \/ /\ pc' = "sweep"
          /\ UNCHANGED <<all_results, bi, ei, error>>
       \/ /\ CanSucceed(evms_to_run[ei])
          /\ \E run \in HyperfineRuns :
               all_results' = Insert(all_results, benchmarks_to_run[bi][1], evms_to_run[ei],
                    [name |-> benchmarks_to_run[bi][2].name, evm |-> evms_to_run[ei],
                     mean |-> run.mean, stddev |-> run.stddev, median |-> run.median,
                     min |-> run.min, max |-> run.max])
          /\ IF ei < Len(evms_to_run)
             THEN ei' = ei + 1 /\ bi' = bi
             ELSE ei' = 1 /\ bi' = bi + 1
          /\ pc' = "sweep"
          /\ UNCHANGED error
    /\ UNCHANGED <<hyperfine_installed, iterations, warmup, which_checks,
                   compiled_contracts, benchmarks, evms_to_run, benchmark_name,
                   benchmarks_to_run, hyperfine_log, shown, output, file>>

\* the rest of run_single_benchmark, the `?` of its caller and the insertion
FinishMeasure ==
    /\ pc = "measuring"
    /\ \/ /\ \E msg \in MeasureFailures(evms_to_run[ei]) : Fail(msg)
          /\ UNCHANGED <<all_results, bi, ei>>
       \/ /\ CanSucceed(evms_to_run[ei])
          /\ \E run \in HyperfineRuns :
               all_results' = Insert(all_results, benchmarks_to_run[bi][1], evms_to_run[ei],
                    [name |-> benchmarks_to_run[bi][2].name, evm |-> evms_to_run[ei],
                     mean |-> run.mean, stddev |-> run.stddev, median |-> run.median,
                     min |-> run.min, max |-> run.max])
          /\ IF ei < Len(evms_to_run)
             THEN ei' = ei + 1 /\ bi' = bi
             ELSE ei' = 1 /\ bi' = bi + 1
          /\ pc' = "sweep"
          /\ UNCHANGED error
    /\ UNCHANGED <<hyperfine_installed, iterations, warmup, which_checks,
                   compiled_contracts, benchmarks, evms_to_run, benchmark_name,
                   benchmarks_to_run, hyperfine_log, shown, output, file>>

\* Display not waiting for the end of the sweep
Display_Early ==
    /\ pc = "sweep"
    /\ shown' = Some(all_results)
    /\ pc' = "save"
    /\ UNCHANGED <<hyperfine_installed, iterations, warmup, which_checks,
                   compiled_contracts, benchmarks, evms_to_run, benchmark_name,
                   benchmarks_to_run, bi, ei, hyperfine_log, all_results, error,
                   output, file>>

\* display::show_results(&all_results)?
Display ==
    /\ pc = "sweep"
    /\ bi > Len(benchmarks_to_run)
    /\ shown' = Some(all_results)
    /\ pc' = "save"
    /\ UNCHANGED <<hyperfine_installed, iterations, warmup, which_checks,
                   compiled_contracts, benchmarks, evms_to_run, benchmark_name,
                   benchmarks_to_run, bi, ei, hyperfine_log, all_results, error,
                   output, file>>

\* if let Some(output_path) = output { std::fs::write(output_path, json)? }
Save ==
    /\ pc = "save"
    /\ \E out \in OutputInputs :
          /\ SameInput("output", out)
          /\ output' = out
          /\ IF out = None
             THEN pc' = "done" /\ UNCHANGED <<file, error>>
             ELSE \/ pc' = "done" /\ file' = Some(all_results) /\ UNCHANGED error
                  \/ Fail("Failed to write the results") /\ UNCHANGED file
    /\ UNCHANGED <<hyperfine_installed, iterations, warmup, which_checks,
                   compiled_contracts, benchmarks, evms_to_run, benchmark_name,
                   benchmarks_to_run, bi, ei, hyperfine_log, all_results, shown>>

\* ------------------------------------------------------------ a second run

RunIdle ==
    /\ pc = "idle"
    /\ hyperfine_installed = FALSE
    /\ iterations = 0
    /\ warmup = 0
    /\ which_checks = 0
    /\ compiled_contracts = <<>>
    /\ benchmarks = <<>>
    /\ evms_to_run = <<>>
    /\ benchmark_name = None
    /\ benchmarks_to_run = <<>>
    /\ bi = 0
    /\ ei = 0
    /\ hyperfine_log = <<>>
    /\ all_results = <<>>
    /\ error = ""
    /\ shown = None
    /\ output = None
    /\ file = None

RerunIdle ==
    /\ second_run = FALSE
    /\ prev = <<>>

\* The program is started again with the same arguments, compiled contracts and
\* environment, once its first run has ended with a selection made.
Rerun ==
    /\ ~second_run
    /\ pc \in {"done", "failed"}
    /\ bi >= 1
    /\ second_run' = TRUE
    /\ prev' = [pc |-> pc, compiled_contracts |-> compiled_contracts,
                evms_to_run |-> evms_to_run, benchmark_name |-> benchmark_name,
                output |-> output, benchmarks_to_run |-> benchmarks_to_run,
                hyperfine_log |-> hyperfine_log]
    /\ pc' = "start"
    /\ which_checks' = 0
    /\ compiled_contracts' = <<>>
    /\ benchmarks' = <<>>
    /\ evms_to_run' = <<>>
    /\ benchmark_name' = None
    /\ benchmarks_to_run' = <<>>
    /\ bi' = 0
    /\ ei' = 0
    /\ hyperfine_log' = <<>>
    /\ all_results' = <<>>
    /\ error' = ""
    /\ shown' = None
    /\ output' = None
    /\ UNCHANGED <<hyperfine_installed, iterations, warmup, file>>

\* -------------------------------------------------- determine_evms on its own

\* the arguments of compare_evms: a list of strings of at most one atom each
MaxList == 2
CompareInputs == UNION {[1..k -> Strings(1)] : k \in 0..MaxList}

SelIdle ==
    /\ sel_list = None
    /\ sel_evm = None
    /\ sel_evms = None
    /\ sel_all = FALSE
    /\ sel_geth = FALSE
    /\ sel_result = None

\* either the selectors of `run`, in any combination, or the list of `compare`
SelInit ==
    /\ sel_geth \in BOOLEAN
    /\ sel_result = None
    /\ \/ /\ sel_list = None
          /\ sel_evm \in {None} \cup {Some(e) : e \in SingleIds}
          /\ sel_evms \in {None} \cup {Some(s) : s \in Strings(MaxLen)}
          /\ sel_all \in BOOLEAN
       \/ /\ sel_list \in {Some(l) : l \in CompareInputs}
          /\ sel_evm = None
          /\ sel_evms = None
          /\ sel_all = FALSE

\* determine_evms(evm, evms, all) as run_benchmarks calls it; it has no error path
ApplyDetermineEvms ==
    /\ sel_list = None
    /\ sel_result = None
    /\ sel_result' = Some([ok |-> TRUE,
                           evms |-> determine_evms(sel_evm, sel_evms, sel_all, sel_geth)])
    /\ UNCHANGED <<sel_list, sel_evm, sel_evms, sel_all, sel_geth>>

\* compare_evms: the arguments it calls run_benchmarks with
compare_evms(evms, benchmark, output_path) ==
    [benchmark_name |-> benchmark, iterations |-> 10, warmup |-> 3, evm |-> None,
     evms |-> Some(Join(evms)), all |-> FALSE, output |-> output_path,
     export_json |-> None, verbose |-> FALSE]

\* compare_evms: run_benchmarks(benchmark, 10, 3, None, Some(evms.join(",")), false, ..)
\* and the determine_evms of that run
ApplyCompare ==
    /\ sel_list # None
    /\ sel_result = None
    /\ LET args == compare_evms(sel_list[1], None, None)
       IN /\ sel_evms' = args.evms
          /\ sel_result' = Some([ok |-> TRUE,
                                 evms |-> determine_evms(args.evm, args.evms, args.all, sel_geth),
                                 iterations |-> args.iterations,
                                 warmup |-> args.warmup])
    /\ UNCHANGED <<sel_list, sel_evm, sel_all, sel_geth>>

\* ---------------------------------------------------------- execute_bytecode

\* most loop iterations asked of one `execute` process
MaxInternalRuns == 2

\* Hex strings are sequences of characters.
HexLower == <<"0", "1", "2", "3", "4", "5", "6", "7", "8", "9", "a", "b", "c", "d", "e", "f">>
HexUpper == <<"0", "1", "2", "3", "4", "5", "6", "7", "8", "9", "A", "B", "C", "D", "E", "F">>
IsHexDigit(c) == \E k \in 1..16 : HexLower[k] = c \/ HexUpper[k] = c
HexVal(c) == (CHOOSE k \in 1..16 : HexLower[k] = c \/ HexUpper[k] = c) - 1

\* str::strip_prefix("0x").unwrap_or(..)
strip_prefix(s) ==
    IF Len(s) >= 2 /\ s[1] = "0" /\ s[2] = "x" THEN SubSeq(s, 3, Len(s)) ELSE s

\* hex::decode: an odd length and a character that is no hex digit are errors
hex_decode(s) ==
    IF Len(s) % 2 # 0 \/ \E k \in 1..Len(s) : ~IsHexDigit(s[k])
    THEN [ok |-> FALSE, bytes |-> <<>>]
    ELSE [ok |-> TRUE,
          bytes |-> [k \in 1..(Len(s) \div 2) |-> 16 * HexVal(s[2 * k - 1]) + HexVal(s[2 * k])]]

\* Programs the executor is given: STOP; INVALID; PUSH1 0 PUSH1 0 REVERT;
\* PUSH1 1 PUSH1 0 SSTORE (writes 1 to storage slot 0).
STOP == <<0>>
INVALID == <<254>>
REVERT == <<96, 0, 96, 0, 253>>
SSTORE == <<96, 1, 96, 0, 85>>

BytecodeInputs ==
    { <<"0", "0">>,
      <<"f", "e">>,
      <<"6", "0", "0", "0", "6", "0", "0", "0", "f", "d">>,
      <<"0", "x", "6", "0", "0", "1", "6", "0", "0", "0", "5", "5">>,
      <<"6", "0", "0">>,
      <<"z", "z">> }
CalldataInputs ==
    { <<>>,
      <<"0", "x", "3", "0", "6", "2", "7", "b", "7", "c">>,
      <<"0", "x", "g", "0">> }

\* The state of a backend instance: the code at the contract address, whether
\* the caller holds exactly the balance it was funded with, the caller's nonce
\* and the contract's storage slot 0.
NoState == [code |-> <<>>, funded |-> FALSE, nonce |-> 0, storage |-> 0]

\* the state both revm databases of execute_revm are filled with
Provisioned(bytes) == [code |-> bytes, funded |-> TRUE, nonce |-> 0, storage |-> 0]

\* How the engine ends the program of a state.
EngineKind(state) ==
    CASE state.code = INVALID -> "Halt"
      [] state.code = REVERT -> "Revert"
      [] OTHER -> "Success"

\* One call of the engine on a state: the way it ends and the state it leaves.
\* A transaction (revm, ethrex) charges the caller and raises its nonce whatever
\* the end; a successful SSTORE is kept.  A call of the guillotine instance is a
\* message call: it keeps the storage written and nothing else.  Every engine can
\* also fail (an error of the VM), leaving the state as it was.
EngineCall(evm_name, state) ==
    LET written == IF EngineKind(state) = "Success" /\ state.code = SSTORE
                   THEN 1 ELSE state.storage
        after == IF evm_name = GUILLOTINE
                 THEN [state EXCEPT !.storage = written]
                 ELSE [state EXCEPT !.storage = written, !.nonce = @ + 1, !.funded = FALSE]
    IN {[kind |-> EngineKind(state), state |-> after],
        [kind |-> "Error", state |-> state]}

\* The state an execution starts from, for the backend and iteration at hand.
\* execute_revm builds the database before the loop and replaces it for run > 0;
\* EthrexExecutor::execute builds its database on every call;
\* GuillotineExecutor::execute sets balance and code on the instance it keeps.
StartState(evm_name, bytes, run, engine) ==
    CASE evm_name = REVM -> IF run > 0 THEN Provisioned(bytes) ELSE engine
      [] evm_name = ETHREX -> Provisioned(bytes)
      [] OTHER -> [engine EXCEPT !.funded = TRUE, !.code = bytes]

Ok == [kind |-> "Ok", msg |-> ""]
Err(msg) == [kind |-> "Err", msg |-> msg]

\* What the loop body of execute_revm / execute_ethrex / execute_guillotine makes
\* of the way an execution ended: Ok to go on, or the error it returns.
LoopResult(evm_name, kind) ==
    IF evm_name = REVM
    THEN CASE kind = "Success" -> {Ok}
           [] kind = "Revert" -> {Err("EVM execution reverted")}
           [] kind = "Halt" -> {Err("EVM execution halted")}
           [] OTHER -> {Err("EVM execution error")}
    ELSE IF evm_name = ETHREX
    THEN CASE kind = "Success" -> {Ok}
           [] kind = "Error" -> {Err("Failed to execute with Ethrex")}
           [] OTHER -> {Err("Ethrex execution failed")}
    ELSE CASE kind = "Success" -> {Ok}
           [] kind = "Error" -> {Err("Failed to execute with Guillotine")}
           [] OTHER -> {Err("Guillotine execution failed"),
                        Err("Failed to execute with Guillotine")}

ExecIdle ==
    /\ x_pc = "idle"
    /\ x_evm = EMPTY
    /\ x_bytecode = <<>>
    /\ x_calldata = <<>>
    /\ x_internal_runs = 0
    /\ x_run = 0
    /\ x_engine = NoState
    /\ x_started = <<>>
    /\ x_outcome = "none"
    /\ x_result = None

ExecInit ==
    /\ x_pc = "start"
    /\ x_evm \in SingleIds
    /\ x_bytecode \in BytecodeInputs
    /\ x_calldata \in CalldataInputs
    /\ x_internal_runs \in 0..MaxInternalRuns
    /\ x_run = 0
    /\ x_engine = NoState
    /\ x_started = <<>>
    /\ x_outcome = "none"
    /\ x_result = None

Return(result) ==
    /\ x_pc' = "done"
    /\ x_result' = Some(result)

\* execute_bytecode's dispatch and the part of execute_* before the loop
ExecStart ==
    /\ x_pc = "start"
    /\ LET bytecode == hex_decode(strip_prefix(x_bytecode))
           calldata == hex_decode(strip_prefix(x_calldata))
       IN IF x_evm \notin KnownEvms
          THEN Return(Err("Unknown EVM implementation")) /\ UNCHANGED x_engine
          ELSE IF x_evm = GETH
          THEN Return(Err("Geth execution not yet implemented")) /\ UNCHANGED x_engine
          ELSE IF ~bytecode.ok \/ ~calldata.ok
          THEN Return(Err("Failed to decode hex")) /\ UNCHANGED x_engine
          ELSE \/ /\ x_pc' = "loop"
                  /\ x_engine' = IF x_evm = REVM THEN Provisioned(bytecode.bytes) ELSE NoState
                  /\ UNCHANGED x_result
               \/ /\ x_evm = GUILLOTINE
                  /\ Return(Err("Failed to create Guillotine executor"))
                  /\ UNCHANGED x_engine
    /\ UNCHANGED <<x_evm, x_bytecode, x_calldata, x_internal_runs, x_run, x_started,
                   x_outcome>>

\* one iteration of the loop: provision, execute, look at the result
ExecIterate ==
    /\ x_pc = "loop"
    /\ x_run < x_internal_runs
    /\ LET bytes == hex_decode(strip_prefix(x_bytecode)).bytes
           start == StartState(x_evm, bytes, x_run, x_engine)
       IN \/ /\ x_evm \in {GUILLOTINE, ETHREX}
             /\ Return(Err(IF x_evm = ETHREX THEN "Failed to execute with Ethrex"
                                              ELSE "Failed to execute with Guillotine"))
             /\ UNCHANGED <<x_run, x_engine, x_started, x_outcome>>
          \/ \E o \in EngineCall(x_evm, start) :
                /\ x_started' = Append(x_started, start)
                /\ x_outcome' = o.kind
                /\ x_engine' = IF x_evm = ETHREX THEN NoState ELSE o.state
                /\ \E r \in LoopResult(x_evm, o.kind) :
                      IF r = Ok
                      THEN x_run' = x_run + 1 /\ UNCHANGED <<x_pc, x_result>>
                      ELSE Return(r) /\ UNCHANGED x_run
    /\ UNCHANGED <<x_evm, x_bytecode, x_calldata, x_internal_runs>>

\* the Ok(()) after the loop
ExecFinish ==
    /\ x_pc = "loop"
    /\ x_run = x_internal_runs
    /\ Return(Ok)
    /\ UNCHANGED <<x_evm, x_bytecode, x_calldata, x_internal_runs, x_run, x_engine,
                   x_started, x_outcome>>

\* ------------------------------------------ reading hyperfine's export file

\* longest times sequence of a hyperfine record, and most runs asked for
MaxTimes == 2

\* The statistics of a run object in the export file; HyperfineRun declares all
\* of them f64, and stddev with #[serde(default)].
StatFields == {"mean", "stddev", "median", "min", "max"}
RequiredStats == StatFields \ {"stddev"}
StatValues == {1, 2}
TimesValues == UNION {[1..k -> {1}] : k \in 0..MaxTimes}

\* A run object of the file: the statistics it has, and its times if it has any.
JsonRuns ==
    {[stats |-> f, times |-> t] :
        f \in UNION {[S -> StatValues] : S \in SUBSET StatFields},
        t \in {None} \cup {Some(v) : v \in TimesValues}}

\* The content of the file: no JSON, or a results array of at most one run.
NotJson == [json |-> FALSE, results |-> <<>>]
Json(results) == [json |-> TRUE, results |-> results]
JsonInputs == {NotJson, Json(<<>>)} \cup {Json(<<r>>) : r \in JsonRuns}

\* #[derive(Deserialize)] struct HyperfineRun: a missing mean, median, min, max
\* or times is an error, a missing stddev is 0.0; `run` is read only when ok.
HyperfineRun(r) ==
    [ok |-> RequiredStats \subseteq DOMAIN r.stats /\ r.times # None,
     run |-> [mean |-> IF "mean" \in DOMAIN r.stats THEN r.stats["mean"] ELSE 0,
              stddev |-> IF "stddev" \in DOMAIN r.stats THEN r.stats["stddev"] ELSE 0,
              median |-> IF "median" \in DOMAIN r.stats THEN r.stats["median"] ELSE 0,
              min |-> IF "min" \in DOMAIN r.stats THEN r.stats["min"] ELSE 0,
              max |-> IF "max" \in DOMAIN r.stats THEN r.stats["max"] ELSE 0,
              times |-> IF r.times # None THEN r.times[1] ELSE <<>>]]

ParseIdle ==
    /\ p_pc = "idle"
    /\ p_iterations = 0
    /\ p_json = NotJson
    /\ p_parsed = <<>>
    /\ p_result = None

ParseInit ==
    /\ p_pc = "read"
    /\ p_iterations \in 1..MaxTimes
    /\ p_json \in JsonInputs
    /\ p_parsed = <<>>
    /\ p_result = None

\* read_to_string and serde_json::from_str of run_single_benchmark
ParseResults ==
    /\ p_pc = "read"
    /\ \/ /\ p_pc' = "done"
          /\ p_result' = Some(Err("Failed to read hyperfine results"))
          /\ UNCHANGED p_parsed
       \/ IF ~p_json.json \/ \E k \in 1..Len(p_json.results) : ~HyperfineRun(p_json.results[k]).ok
          THEN /\ p_pc' = "done"
               /\ p_result' = Some(Err("Failed to parse hyperfine results"))
               /\ UNCHANGED p_parsed
          ELSE /\ p_pc' = "parsed"
               /\ p_parsed' = [k \in 1..Len(p_json.results) |-> HyperfineRun(p_json.results[k]).run]
               /\ UNCHANGED p_result
    /\ UNCHANGED <<p_iterations, p_json>>

\* BuildResult taking the last record of the results instead of the first
BuildResult_Last ==
    /\ p_pc = "parsed"
    /\ p_pc' = "done"
    /\ p_result' =
          IF p_parsed = <<>>
          THEN Some(Err("No results from hyperfine"))
          ELSE Some([kind |-> "Ok",
                     value |-> [name |-> "snailtracer",
                                evm |-> REVM,
                                mean |-> p_parsed[Len(p_parsed)].mean,
                                stddev |-> p_parsed[Len(p_parsed)].stddev,
                                median |-> p_parsed[Len(p_parsed)].median,
                                min |-> p_parsed[Len(p_parsed)].min,
                                max |-> p_parsed[Len(p_parsed)].max,
                                times |-> p_parsed[Len(p_parsed)].times]])
    /\ UNCHANGED <<p_iterations, p_json, p_parsed>>

\* results.into_iter().next() and the BenchmarkResult built from it
BuildResult ==
    /\ p_pc = "parsed"
    /\ p_pc' = "done"
    /\ p_result' =
          IF p_parsed = <<>>
          THEN Some(Err("No results from hyperfine"))
          ELSE Some([kind |-> "Ok",
                     value |-> [name |-> "snailtracer",
                                evm |-> REVM,
                                mean |-> p_parsed[1].mean,
                                stddev |-> p_parsed[1].stddev,
                                median |-> p_parsed[1].median,
                                min |-> p_parsed[1].min,
                                max |-> p_parsed[1].max,
                                times |-> p_parsed[1].times]])
    /\ UNCHANGED <<p_iterations, p_json, p_parsed>>

\* -------------------------------------------- the report: print and save

\* reports made of one collection of results
MaxRounds == 2

\* Times are counted in units of 0.00001 s: 0.010 s, 0.01001 s and 0.050 s.
Means == {1000, 1001, 5000}

\* the 0.0001 of `(result.mean - fastest_mean).abs() < 0.0001`, in those units
Epsilon == 10

ShowBenchmarks == {"snailtracer", "ten_thousand_hashes"}
ShowEvms == {REVM, GUILLOTINE}

\* The collections of results to report: some benchmarks, each with the mean of
\* one or more backends.
ResultInputs ==
    UNION {[B -> UNION {[E -> Means] : E \in SUBSET ShowEvms \ {{}}}] :
             B \in SUBSET ShowBenchmarks \ {{}}}

\* the BenchmarkResult of a pair, its statistics being those of one sample
ResultOf(results, bench, evm_name) ==
    LET m == results[bench][evm_name]
    IN [name |-> bench, evm |-> evm_name, mean |-> m, stddev |-> 0, median |-> m,
        min |-> m, max |-> m, times |-> <<m>>]

\* The orders a HashMap<String, HashMap<String, _>> holding the results can
\* iterate in: one of the benchmarks, and one of the backends of each.
MapOrders(results) ==
    {[benches |-> bo, evms |-> eo] :
        bo \in Orders(DOMAIN results),
        eo \in {f \in [DOMAIN results -> UNION {Orders(E) : E \in SUBSET ShowEvms}] :
                  \A b \in DOMAIN results : Range(f[b]) = DOMAIN results[b]}}

\* format!("{:.4}", seconds) and format!("{:.2}", a / b), to the nearest; the
\* results are in ten-thousandths and in hundredths.
Format4(m) == (m + 5) \div 10
Format2(a, b) == (200 * a + b) \div (2 * b)

MinOf(S) == CHOOSE m \in S : \A n \in S : m <= n
Abs(n) == IF n < 0 THEN -n ELSE n

\* slice::sort_by on the mean: stable, equal means keep their order
RECURSIVE SortByMean(_, _)
SortByMean(evs, mean) ==
    IF evs = <<>> THEN <<>>
    ELSE LET rest == SortByMean(SubSeq(evs, 1, Len(evs) - 1), mean)
             last == evs[Len(evs)]
             k == Cardinality({i \in 1..Len(rest) : mean[rest[i]] <= mean[last]})
         IN SubSeq(rest, 1, k) \o <<last>> \o SubSeq(rest, k + 1, Len(rest))

\* the table of one benchmark: a row per backend in iteration order
Table(mean, evs) ==
    LET fastest_mean == MinOf({mean[e] : e \in DOMAIN mean})
    IN [k \in 1..Len(evs) |->
          [evm |-> evs[k],
           is_fastest |-> Abs(mean[evs[k]] - fastest_mean) < Epsilon,
           mean |-> Format4(mean[evs[k]])]]

\* Relative with the quotient turned over: fastest_time / result.mean
Relative_Inverted(mean, evs) ==
    IF Len(evs) > 1
    THEN LET evms == SortByMean(evs, mean)
             fastest == evms[1]
             fastest_time == mean[fastest]
         IN [k \in 1..Len(evms) |->
               IF evms[k] = fastest
               THEN [evm |-> evms[k], bar |-> (fastest_time * 20) \div mean[evms[k]],
                     ratio |-> 100, label |-> "fastest", than |-> fastest]
               ELSE [evm |-> evms[k], bar |-> (fastest_time * 20) \div mean[evms[k]],
                     ratio |-> Format2(fastest_time, mean[evms[k]]),
                     label |-> "slower than", than |-> fastest]]
    ELSE <<>>

\* the relative performance lines of one benchmark, printed when it has more
\* than one backend
Relative(mean, evs) ==
    IF Len(evs) > 1
    THEN LET evms == SortByMean(evs, mean)
             fastest == evms[1]
             fastest_time == mean[fastest]
         IN [k \in 1..Len(evms) |->
               IF evms[k] = fastest
               THEN [evm |-> evms[k], bar |-> (fastest_time * 20) \div mean[evms[k]],
                     ratio |-> 100, label |-> "fastest", than |-> fastest]
               ELSE [evm |-> evms[k], bar |-> (fastest_time * 20) \div mean[evms[k]],
                     ratio |-> Format2(mean[evms[k]], fastest_time),
                     label |-> "slower than", than |-> fastest]]
    ELSE <<>>

\* what show_results prints for the map in the given iteration order
show_results(results, order) ==
    [k \in 1..Len(order.benches) |->
        LET bench_name == order.benches[k]
        IN [bench |-> bench_name,
            table |-> Table(results[bench_name], order.evms[bench_name]),
            relative |-> Relative(results[bench_name], order.evms[bench_name])]]

\* serde_json::to_string_pretty of the map: its entries in iteration order
to_string_pretty(results, order) ==
    [k \in 1..Len(order.benches) |->
        LET bench_name == order.benches[k]
        IN <<bench_name,
             [j \in 1..Len(order.evms[bench_name]) |->
                <<order.evms[bench_name][j],
                  ResultOf(results, bench_name, order.evms[bench_name][j])>>]>>]

NoOrder == [benches |-> <<>>, evms |-> <<>>]

ShowIdle ==
    /\ d_pc = "idle"
    /\ d_results = <<>>
    /\ d_order = NoOrder
    /\ d_round = 0
    /\ d_printed = <<>>
    /\ d_json = <<>>

ShowInit ==
    /\ d_pc = "aggregate"
    /\ d_results \in ResultInputs
    /\ d_order = NoOrder
    /\ d_round = 0
    /\ d_printed = <<>>
    /\ d_json = <<>>

\* run_benchmarks collects the results into a new HashMap of HashMaps
Aggregate ==
    /\ d_pc = "aggregate"
    /\ d_round < MaxRounds
    /\ d_order' \in MapOrders(d_results)
    /\ d_pc' = "show"
    /\ UNCHANGED <<d_results, d_round, d_printed, d_json>>

\* display::show_results(&all_results)
ShowResults ==
    /\ d_pc = "show"
    /\ d_printed' = Append(d_printed, show_results(d_results, d_order))
    /\ d_pc' = "save"
    /\ UNCHANGED <<d_results, d_order, d_round, d_json>>

\* serde_json::to_string_pretty(&all_results) and the write
SaveJson ==
    /\ d_pc = "save"
    /\ d_json' = Append(d_json, to_string_pretty(d_results, d_order))
    /\ d_round' = d_round + 1
    /\ d_pc' = "aggregate"
    /\ UNCHANGED <<d_results, d_order, d_printed>>

\* ------------------------------------------------- the executor programs

\* The programs that execute one bytecode: the `execute` subcommand (cli.rs),
\* the standalone runner (main.rs) and the guillotine runner.
Entries_ == {"execute", "main", "guillotine_runner"}

\* main.rs: decode_hex strips one "0x" or "0X"
decode_hex(s) ==
    IF Len(s) >= 2 /\ s[1] = "0" /\ s[2] \in {"x", "X"}
    THEN hex_decode(SubSeq(s, 3, Len(s)))
    ELSE hex_decode(s)

\* str::trim_start_matches("0x"): every leading "0x" is removed
RECURSIVE trim_start_matches(_)
trim_start_matches(s) ==
    IF Len(s) >= 2 /\ s[1] = "0" /\ s[2] = "x"
    THEN trim_start_matches(SubSeq(s, 3, Len(s)))
    ELSE s

\* u8::from_str_radix(byte_str, 16) on two characters: two hex digits, or a
\* plus sign and one hex digit
from_str_radix(a, b) ==
    IF IsHexDigit(a) /\ IsHexDigit(b) THEN [ok |-> TRUE, byte |-> 16 * HexVal(a) + HexVal(b)]
    ELSE IF a = "+" /\ IsHexDigit(b) THEN [ok |-> TRUE, byte |-> HexVal(b)]
    ELSE [ok |-> FALSE, byte |-> 0]

\* guillotine_runner.rs: mod hex, decode
runner_hex_decode(s) ==
    IF Len(s) % 2 # 0
           \/ \E k \in 1..(Len(s) \div 2) : ~from_str_radix(s[2 * k - 1], s[2 * k]).ok
    THEN [ok |-> FALSE, bytes |-> <<>>]
    ELSE [ok |-> TRUE,
          bytes |-> [k \in 1..(Len(s) \div 2) |-> from_str_radix(s[2 * k - 1], s[2 * k]).byte]]

\* the backend ids each program is given
EntryEvms(entry) ==
    CASE entry = "execute" -> SingleIds
      [] entry = "main" -> {ETHREX, NONEXISTENT}
      [] OTHER -> {GUILLOTINE}

EntryIdle ==
    /\ e_pc = "idle"
    /\ e_entry = ""
    /\ e_evm = EMPTY
    /\ e_bytecode = <<>>
    /\ e_calldata = <<>>
    /\ e_measure_startup = FALSE
    /\ e_bytes = <<>>
    /\ e_outcome = "none"
    /\ e_exit = None

EntryInit ==
    /\ e_pc = "start"
    /\ e_entry \in Entries_
    /\ e_evm \in EntryEvms(e_entry)
    /\ e_bytecode \in BytecodeInputs
    /\ e_calldata \in CalldataInputs
    /\ e_measure_startup \in (IF e_entry = "guillotine_runner" THEN BOOLEAN ELSE {FALSE})
    /\ e_bytes = <<>>
    /\ e_outcome = "none"
    /\ e_exit = None

Exit(code) ==
    /\ e_pc' = "exited"
    /\ e_exit' = Some(code)

\* what each program does before it executes: decode the arguments, choose and
\* create the backend; an Err returned from main is exit code 1
EntryPrepare ==
    /\ e_pc = "start"
    /\ LET bytecode == CASE e_entry = "execute" -> hex_decode(strip_prefix(e_bytecode))
                         [] e_entry = "main" -> decode_hex(e_bytecode)
                         [] OTHER -> runner_hex_decode(trim_start_matches(e_bytecode))
           calldata == CASE e_entry = "execute" -> hex_decode(strip_prefix(e_calldata))
                         [] e_entry = "main" -> decode_hex(e_calldata)
                         [] OTHER -> runner_hex_decode(trim_start_matches(e_calldata))
           known == CASE e_entry = "execute" -> e_evm \in KnownEvms /\ e_evm # GETH
                      [] e_entry = "main" -> e_evm \in {REVM, ETHREX}
                      [] OTHER -> TRUE
       IN IF ~known \/ ~bytecode.ok \/ ~calldata.ok
          THEN Exit(1) /\ UNCHANGED e_bytes
          ELSE \/ /\ e_evm = GUILLOTINE
                  /\ Exit(1)
                  /\ UNCHANGED e_bytes
               \/ IF e_measure_startup
                  THEN Exit(0) /\ UNCHANGED e_bytes
                  ELSE /\ e_pc' = "execute"
                       /\ e_bytes' = bytecode.bytes
                       /\ UNCHANGED e_exit
    /\ UNCHANGED <<e_entry, e_evm, e_bytecode, e_calldata, e_measure_startup, e_outcome>>

\* The exit code after an execution that ended the given way.  `execute` returns
\* the error of execute_bytecode; main.rs prints the EvmResult of
\* EthrexExecutor::execute, which is Ok for a revert, and returns Ok;
\* guillotine_runner exits with 1 when the result is not a success.
ExitCodes(entry, evm_name, kind) ==
    CASE entry = "execute" -> {IF r = Ok THEN 0 ELSE 1 : r \in LoopResult(evm_name, kind)}
      [] entry = "main" -> {IF kind = "Error" THEN 1 ELSE 0}
      [] OTHER -> {IF kind = "Success" THEN 0 ELSE 1}

\* the execution and the end of the process
EntryExecute ==
    /\ e_pc = "execute"
    /\ \E o \in EngineCall(e_evm, Provisioned(e_bytes)) :
          /\ e_outcome' = o.kind
          /\ \E code \in ExitCodes(e_entry, e_evm, o.kind) : Exit(code)
    /\ UNCHANGED <<e_entry, e_evm, e_bytecode, e_calldata, e_measure_startup, e_bytes>>

\* ------------------------------------------ run_single_benchmark, call by call

\* calls of run_single_benchmark in one sweep, and paths of the temporary directory
MaxCalls == 2
MaxPaths == 2

Paths == 1..MaxPaths

\* two complete run objects, and what hyperfine may leave in its export file
RunA ==
    [stats |-> [f \in StatFields |-> 1], times |-> Some(<<1>>)]
RunB ==
    [stats |-> [f \in StatFields |-> 2], times |-> Some(<<1, 1>>)]
ExportInputs ==
    {NotJson, Json(<<>>), Json(<<RunA>>), Json(<<RunA, RunB>>), Json(<<RunB, RunA>>)}

\* a file some other process left in the temporary directory
Foreign == [by |-> 0, json |-> Json(<<RunB>>)]

\* the temporary directory without a path
Remove(tmp, path) == [q \in DOMAIN tmp \ {path} |-> tmp[q]]

MeasureIdle ==
    /\ m_pc = "idle"
    /\ m_op = ""
    /\ m_warmup = 0
    /\ m_call = 0
    /\ m_tmp = <<>>
    /\ m_path = 0
    /\ m_created = <<>>
    /\ m_invocations = <<>>
    /\ m_reads = <<>>
    /\ m_results = <<>>

\* The first call of a sweep: `run` with the arguments of RunInputs, or compare
\* with those compare_evms passes.
MeasureInit ==
    /\ m_pc = "call"
    /\ m_op \in {"run", "compare"}
    /\ \E r \in RunInputs :
          LET args == compare_evms(<<REVM>>, None, None)
          IN /\ p_iterations = IF m_op = "compare" THEN args.iterations ELSE r[1]
             /\ m_warmup = IF m_op = "compare" THEN args.warmup ELSE r[2]
    /\ m_call = 1
    /\ m_tmp \in UNION {[S -> {Foreign}] : S \in SUBSET Paths}
    /\ m_path = 0
    /\ m_created = <<>>
    /\ m_invocations = <<>>
    /\ m_reads = <<>>
    /\ m_results = <<>>
    /\ p_pc = "idle"
    /\ p_json = NotJson
    /\ p_parsed = <<>>
    /\ p_result = None

\* the `?` of run_benchmarks on an error of the call: the sweep is over, and the
\* scratch file, if there is one, is removed with the NamedTempFile
Abort(result, path) ==
    /\ m_pc' = "end"
    /\ m_results' = Append(m_results, [call |-> m_call, result |-> result])
    /\ m_tmp' = Remove(m_tmp, path)

\* CreateScratch with one fixed path for the export file, opened whether or not
\* it exists
CreateScratch_FixedPath ==
    /\ m_pc = "call"
    /\ \/ /\ Abort(Err("Failed to get current executable path"), 0)
          /\ UNCHANGED <<m_path, m_created>>
       \/ /\ m_path' = 1
          /\ m_created' = Append(m_created,
                [call |-> m_call, path |-> 1, fresh |-> 1 \notin DOMAIN m_tmp])
          /\ m_tmp' = IF 1 \in DOMAIN m_tmp THEN m_tmp
                      ELSE (1 :> [by |-> m_call, json |-> NotJson]) @@ m_tmp
          /\ m_pc' = "spawn"
          /\ UNCHANGED m_results
    /\ UNCHANGED <<m_op, m_warmup, m_call, m_invocations, m_reads, parseVars>>

\* current_exe() and tempfile::NamedTempFile::new(): a new, empty file at a path
\* nothing exists at; an error when no such file can be created
CreateScratch ==
    /\ m_pc = "call"
    /\ \/ /\ \E msg \in {"Failed to get current executable path",
                          "Failed to create the scratch file"} : Abort(Err(msg), 0)
          /\ UNCHANGED <<m_path, m_created>>
       \/ \E path \in Paths \ DOMAIN m_tmp :
             /\ m_path' = path
             /\ m_created' = Append(m_created,
                   [call |-> m_call, path |-> path, fresh |-> path \notin DOMAIN m_tmp])
             /\ m_tmp' = (path :> [by |-> m_call, json |-> NotJson]) @@ m_tmp
             /\ m_pc' = "spawn"
             /\ UNCHANGED m_results
    /\ UNCHANGED <<m_op, m_warmup, m_call, m_invocations, m_reads, parseVars>>

\* Command::new("hyperfine") .. cmd.status(): hyperfine is started once with
\* --runs, --warmup and --export-json; it cannot be started, exits non-zero, or
\* exits with success after writing its export file
RunHyperfine ==
    /\ m_pc = "spawn"
    /\ \/ /\ Abort(Err("Failed to run hyperfine"), m_path)
          /\ UNCHANGED m_invocations
       \/ /\ m_invocations' = Append(m_invocations,
                [call |-> m_call, runs |-> p_iterations, warmup |-> m_warmup,
                 export_json |-> m_path])
          /\ \/ Abort(Err("Hyperfine failed with exit code"), m_path)
             \/ \E json \in ExportInputs :
                   /\ m_tmp' = [m_tmp EXCEPT ![m_path] = [by |-> m_call, json |-> json]]
                   /\ m_pc' = "read"
                   /\ UNCHANGED m_results
    /\ UNCHANGED <<m_op, m_warmup, m_call, m_path, m_created, m_reads, parseVars>>

\* std::fs::read_to_string(json_path): the content of the file at the scratch
\* path is what ParseResults goes on with
ReadScratch ==
    /\ m_pc = "read"
    /\ m_reads' = Append(m_reads,
          [call |-> m_call, by |-> m_tmp[m_path].by, json |-> m_tmp[m_path].json])
    /\ p_json' = m_tmp[m_path].json
    /\ p_pc' = "read"
    /\ m_pc' = "parse"
    /\ UNCHANGED <<m_op, m_warmup, m_call, m_tmp, m_path, m_created, m_invocations,
                   m_results, p_iterations, p_parsed, p_result>>

\* The return of the call: the NamedTempFile is dropped and its file removed;
\* after an Ok the sweep goes on with the next call, after an Err it is over.
ReturnMeasure ==
    /\ m_pc = "parse"
    /\ p_pc = "done"
    /\ m_results' = Append(m_results, [call |-> m_call, result |-> p_result[1]])
    /\ m_tmp' = Remove(m_tmp, m_path)
    /\ IF p_result[1].kind = "Ok" /\ m_call < MaxCalls
       THEN /\ m_pc' = "call"
            /\ m_call' = m_call + 1
       ELSE /\ m_pc' = "end"
            /\ UNCHANGED m_call
    /\ p_pc' = "idle"
    /\ p_json' = NotJson
    /\ p_parsed' = <<>>
    /\ p_result' = None
    /\ UNCHANGED <<m_op, m_warmup, m_path, m_created, m_invocations, m_reads,
                   p_iterations>>

\* ------------------------------------------------ the hex helper modules

MaxHexLen == 2
MaxBytes == 2

\* characters given to the decoder: digits, letters of both cases, and two
\* characters that are no hex digits
HexChars == {"0", "9", "a", "A", "f", "F", "+", "g"}
HexStrings == UNION {[1..k -> HexChars] : k \in 0..MaxHexLen}
ByteValues == {0, 10, 171, 255}
ByteSeqs == UNION {[1..k -> ByteValues] : k \in 0..MaxBytes}

\* format!("{:x}", byte): no leading zero
runner_hex_encode_NoPadding(bytes) ==
    LET Digits(b) == IF b < 16 THEN <<HexLower[b + 1]>>
                     ELSE <<HexLower[(b \div 16) + 1], HexLower[(b % 16) + 1]>>
        F[k \in 0..Len(bytes)] == IF k = 0 THEN <<>> ELSE F[k - 1] \o Digits(bytes[k])
    IN F[Len(bytes)]

\* guillotine_runner.rs: mod hex, encode: format!("{:02x}", byte) for each byte
runner_hex_encode(bytes) ==
    LET Digits(b) == <<HexLower[(b \div 16) + 1], HexLower[(b % 16) + 1]>>
        F[k \in 0..Len(bytes)] == IF k = 0 THEN <<>> ELSE F[k - 1] \o Digits(bytes[k])
    IN F[Len(bytes)]

NotDecoded == [ok |-> FALSE, bytes |-> <<>>]

HexIdle ==
    /\ h_pc = "idle"
    /\ h_dir = ""
    /\ h_s = <<>>
    /\ h_bytes = <<>>
    /\ h_decoded = NotDecoded
    /\ h_encoded = <<>>

\* a string to decode and encode again, or bytes to encode and decode again
HexInit ==
    /\ h_pc = "start"
    /\ \/ h_dir = "decode_encode" /\ h_s \in HexStrings /\ h_bytes = <<>>
       \/ h_dir = "encode_decode" /\ h_s = <<>> /\ h_bytes \in ByteSeqs
    /\ h_decoded = NotDecoded
    /\ h_encoded = <<>>

\* hex::decode of the string given, or of the string encode returned
HexDecode ==
    \/ /\ h_dir = "decode_encode" /\ h_pc = "start"
       /\ h_decoded' = runner_hex_decode(h_s)
       /\ h_pc' = IF h_decoded'.ok THEN "middle" ELSE "done"
       /\ UNCHANGED <<h_dir, h_s, h_bytes, h_encoded>>
    \/ /\ h_dir = "encode_decode" /\ h_pc = "middle"
       /\ h_decoded' = runner_hex_decode(h_encoded)
       /\ h_pc' = "done"
       /\ UNCHANGED <<h_dir, h_s, h_bytes, h_encoded>>

\* hex::encode of the bytes given, or of the bytes decode returned
HexEncode ==
    \/ /\ h_dir = "encode_decode" /\ h_pc = "start"
       /\ h_encoded' = runner_hex_encode(h_bytes)
       /\ h_pc' = "middle"
       /\ UNCHANGED <<h_dir, h_s, h_bytes, h_decoded>>
    \/ /\ h_dir = "decode_encode" /\ h_pc = "middle"
       /\ h_encoded' = runner_hex_encode(h_decoded.bytes)
       /\ h_pc' = "done"
       /\ UNCHANGED <<h_dir, h_s, h_bytes, h_decoded>>

\* ------------------------------------------------------ saving the report

\* what the output path may hold before the run: nothing, or an earlier report
PreviousFiles == {None, Some(<<"previous report">>)}

\* the characters of the document, in the order they are written
RECURSIVE Flatten(_)
Flatten(seqs) == IF seqs = <<>> THEN <<>> ELSE Head(seqs) \o Flatten(Tail(seqs))
Document(json) ==
    Flatten([k \in 1..Len(json) |-> <<json[k][1]>> \o Flatten(json[k][2])])

\* the reports to save: those of ResultInputs with two of the means
WriteInputs ==
    {r \in ResultInputs : \A b \in DOMAIN r : \A e \in DOMAIN r[b] : r[b][e] \in {1000, 5000}}

WriteIdle ==
    /\ w_pc = "idle"
    /\ w_results = <<>>
    /\ w_prev = None
    /\ w_json = <<>>
    /\ w_file = None
    /\ w_error = None

\* run_benchmarks after show_results, with Some(output_path)
WriteInit ==
    /\ w_pc = "serialize"
    /\ w_results \in WriteInputs
    /\ w_prev \in PreviousFiles
    /\ w_json = <<>>
    /\ w_file = w_prev
    /\ w_error = None

\* serde_json::to_string_pretty(&all_results)?
Serialize ==
    /\ w_pc = "serialize"
    /\ \E order \in MapOrders(w_results) :
          w_json' = Document(to_string_pretty(w_results, order))
    /\ w_pc' = "create"
    /\ UNCHANGED <<w_results, w_prev, w_file, w_error>>

\* std::fs::write, first half: File::create opens the path and truncates it
CreateFile ==
    /\ w_pc = "create"
    /\ \/ w_file' = Some(<<>>) /\ w_pc' = "write_all" /\ UNCHANGED w_error
       \/ w_error' = Some("io error") /\ w_pc' = "failed" /\ UNCHANGED w_file
    /\ UNCHANGED <<w_results, w_prev, w_json>>

\* std::fs::write, second half: write_all writes until nothing is left, each
\* write taking some of the remaining bytes, or fails
WriteAll ==
    /\ w_pc = "write_all"
    /\ \/ /\ Len(w_file[1]) < Len(w_json)
          /\ \E n \in (Len(w_file[1]) + 1)..Len(w_json) :
                w_file' = Some(SubSeq(w_json, 1, n))
          /\ UNCHANGED <<w_pc, w_error>>
       \/ /\ Len(w_file[1]) = Len(w_json)
          /\ w_pc' = "done"
          /\ UNCHANGED <<w_file, w_error>>
       \/ /\ Len(w_file[1]) < Len(w_json)
          /\ w_error' = Some("io error")
          /\ w_pc' = "failed"
          /\ UNCHANGED w_file
    /\ UNCHANGED <<w_results, w_prev, w_json>>

\* the process is killed while it saves
Crash ==
    /\ w_pc \in {"serialize", "create", "write_all"}
    /\ w_pc' = "crashed"
    /\ UNCHANGED <<w_results, w_prev, w_json, w_file, w_error>>

\* ------------------------------------------- guillotine-rs: gas accounting

\* the width of the gas counters (u64 in the code)
GasWidth == 4
GasValues == 0..(2^GasWidth - 1)

\* u64::wrapping_sub
wrapping_sub(a, b) == (a - b + 2^GasWidth) % 2^GasWidth

\* u64::saturating_sub
saturating_sub(a, b) == IF b > a THEN 0 ELSE a - b

\* lib.rs, convert_result: the ExecutionResult of an engine result
convert_result(success, gas_left) ==
    [success |-> success, gas_used |-> 0, gas_left |-> gas_left]

\* Result::Ok holding a value
OkOf(value) == [kind |-> "Ok", value |-> value]

GasIdle ==
    /\ g_pc = "idle"
    /\ g_gas_limit = 0
    /\ g_engine = None
    /\ g_result = None

GasInit ==
    /\ g_pc = "execute"
    /\ g_gas_limit \in GasValues
    /\ g_engine = None
    /\ g_result = None

\* evm.execute(&params): the engine reports success and the gas left, or fails
EvmExecute ==
    /\ g_pc = "execute"
    /\ \/ \E success \in BOOLEAN, gas_left \in GasValues :
             g_engine' = Some(OkOf(convert_result(success, gas_left)))
       \/ g_engine' = Some(Err("Execution failed"))
    /\ g_pc' = "report"
    /\ UNCHANGED <<g_gas_limit, g_result>>

\* the rest of GuillotineExecutor::execute: `?`, then the EvmResult
GasReport ==
    /\ g_pc = "report"
    /\ g_result' =
          IF g_engine[1].kind = "Err" THEN g_engine
          ELSE LET result == g_engine[1].value
               IN Some(OkOf([success |-> result.success,
                             gas_used |-> saturating_sub(g_gas_limit, result.gas_left)]))
    /\ g_pc' = "done"
    /\ UNCHANGED <<g_gas_limit, g_engine>>

UtilIdle == HexIdle /\ WriteIdle /\ GasIdle

\* ----------------------------------------------------------- specifications

Init == RunInit /\ RerunIdle /\ SelIdle /\ ExecIdle /\ ParseIdle /\ ShowIdle /\ EntryIdle /\ MeasureIdle /\ UtilIdle

Next ==
    \/ CheckHyperfine /\ UNCHANGED <<rerunVars, selVars, execVars, parseVars, showVars, entryVars, measureVars, utilVars>>
    \/ LoadBenchmarks /\ UNCHANGED <<rerunVars, selVars, execVars, parseVars, showVars, entryVars, measureVars, utilVars>>
    \/ DetermineEvms /\ UNCHANGED <<rerunVars, selVars, execVars, parseVars, showVars, entryVars, measureVars, utilVars>>
    \/ SelectBenchmarks /\ UNCHANGED <<rerunVars, selVars, execVars, parseVars, showVars, entryVars, measureVars, utilVars>>
    \/ StartMeasure /\ UNCHANGED <<rerunVars, selVars, execVars, parseVars, showVars, entryVars, measureVars, utilVars>>
    \/ FinishMeasure /\ UNCHANGED <<rerunVars, selVars, execVars, parseVars, showVars, entryVars, measureVars, utilVars>>
    \/ Display /\ UNCHANGED <<rerunVars, selVars, execVars, parseVars, showVars, entryVars, measureVars, utilVars>>
    \/ Save /\ UNCHANGED <<rerunVars, selVars, execVars, parseVars, showVars, entryVars, measureVars, utilVars>>

Spec == Init /\ [][Next]_vars

\* The program is sequential and each of its steps ends, a started hyperfine
\* included: a run that can take a step takes one.
SpecLive == Init /\ [][Next]_vars /\ WF_vars(Next)

\* two runs of the program, one after the other
NextRerun ==
    \/ Next
    \/ Rerun /\ UNCHANGED <<selVars, execVars, parseVars, showVars, entryVars, measureVars, utilVars>>

SpecRerun == Init /\ [][NextRerun]_vars

\* determine_evms applied to every selection
InitEvms == RunIdle /\ RerunIdle /\ SelInit /\ ExecIdle /\ ParseIdle /\ ShowIdle /\ EntryIdle /\ MeasureIdle /\ UtilIdle

NextEvms ==
    \/ ApplyDetermineEvms /\ UNCHANGED <<runVars, rerunVars, execVars, parseVars, showVars, entryVars, measureVars, utilVars>>
    \/ ApplyCompare /\ UNCHANGED <<runVars, rerunVars, execVars, parseVars, showVars, entryVars, measureVars, utilVars>>

SpecEvms == InitEvms /\ [][NextEvms]_vars

\* one `execute` process, for every backend and input
InitExec == RunIdle /\ RerunIdle /\ SelIdle /\ ExecInit /\ ParseIdle /\ ShowIdle /\ EntryIdle /\ MeasureIdle /\ UtilIdle

NextExec ==
    \/ ExecStart /\ UNCHANGED <<runVars, rerunVars, selVars, parseVars, showVars, entryVars, measureVars, utilVars>>
    \/ ExecIterate /\ UNCHANGED <<runVars, rerunVars, selVars, parseVars, showVars, entryVars, measureVars, utilVars>>
    \/ ExecFinish /\ UNCHANGED <<runVars, rerunVars, selVars, parseVars, showVars, entryVars, measureVars, utilVars>>

SpecExec == InitExec /\ [][NextExec]_vars

\* the end of one run_single_benchmark, for every content of the export file
InitParse == RunIdle /\ RerunIdle /\ SelIdle /\ ExecIdle /\ ParseInit /\ ShowIdle /\ EntryIdle /\ MeasureIdle /\ UtilIdle

NextParse ==
    \/ ParseResults /\ UNCHANGED <<runVars, rerunVars, selVars, execVars, showVars, entryVars, measureVars, utilVars>>
    \/ BuildResult /\ UNCHANGED <<runVars, rerunVars, selVars, execVars, showVars, entryVars, measureVars, utilVars>>

SpecParse == InitParse /\ [][NextParse]_vars

\* reports made, one after the other, of one collection of results
InitShow == RunIdle /\ RerunIdle /\ SelIdle /\ ExecIdle /\ ParseIdle /\ ShowInit /\ EntryIdle /\ MeasureIdle /\ UtilIdle

NextShow ==
    \/ Aggregate /\ UNCHANGED <<runVars, rerunVars, selVars, execVars, parseVars, entryVars, measureVars, utilVars>>
    \/ ShowResults /\ UNCHANGED <<runVars, rerunVars, selVars, execVars, parseVars, entryVars, measureVars, utilVars>>
    \/ SaveJson /\ UNCHANGED <<runVars, rerunVars, selVars, execVars, parseVars, entryVars, measureVars, utilVars>>

SpecShow == InitShow /\ [][NextShow]_vars

\* one executor process, for every program and input
InitEntry ==
    /\ RunIdle /\ RerunIdle /\ SelIdle /\ ExecIdle /\ ParseIdle /\ ShowIdle
    /\ EntryInit /\ MeasureIdle /\ UtilIdle

NextEntry ==
    \/ EntryPrepare
          /\ UNCHANGED <<runVars, rerunVars, selVars, execVars, parseVars, showVars, measureVars, utilVars>>
    \/ EntryExecute
          /\ UNCHANGED <<runVars, rerunVars, selVars, execVars, parseVars, showVars, measureVars, utilVars>>

SpecEntry == InitEntry /\ [][NextEntry]_vars

\* the calls of run_single_benchmark of one sweep, one after the other
InitMeasure ==
    /\ RunIdle /\ RerunIdle /\ SelIdle /\ ExecIdle /\ ShowIdle /\ EntryIdle
    /\ MeasureInit /\ UtilIdle

MeasureOthers == <<runVars, rerunVars, selVars, execVars, showVars, entryVars, utilVars>>

NextMeasure ==
    \/ CreateScratch /\ UNCHANGED MeasureOthers
    \/ RunHyperfine /\ UNCHANGED MeasureOthers
    \/ ReadScratch /\ UNCHANGED MeasureOthers
    \/ ParseResults /\ UNCHANGED <<MeasureOthers, measureVars>>
    \/ BuildResult /\ UNCHANGED <<MeasureOthers, measureVars>>
    \/ ReturnMeasure /\ UNCHANGED MeasureOthers

SpecMeasure == InitMeasure /\ [][NextMeasure]_vars

\* decode and encode, one after the other, in both orders
UtilOthers ==
    <<runVars, rerunVars, selVars, execVars, parseVars, showVars, entryVars, measureVars>>
UtilInit ==
    RunIdle /\ RerunIdle /\ SelIdle /\ ExecIdle /\ ParseIdle /\ ShowIdle /\ EntryIdle /\ MeasureIdle

InitHex == UtilInit /\ HexInit /\ WriteIdle /\ GasIdle

NextHex ==
    \/ HexDecode /\ UNCHANGED <<UtilOthers, writeVars, gasVars>>
    \/ HexEncode /\ UNCHANGED <<UtilOthers, writeVars, gasVars>>

SpecHex == InitHex /\ [][NextHex]_vars

\* the saving of a report, step by step
InitWrite == UtilInit /\ HexIdle /\ WriteInit /\ GasIdle

NextWrite ==
    \/ Serialize /\ UNCHANGED <<UtilOthers, hexVars, gasVars>>
    \/ CreateFile /\ UNCHANGED <<UtilOthers, hexVars, gasVars>>
    \/ WriteAll /\ UNCHANGED <<UtilOthers, hexVars, gasVars>>
    \/ Crash /\ UNCHANGED <<UtilOthers, hexVars, gasVars>>

SpecWrite == InitWrite /\ [][NextWrite]_vars

\* one call of GuillotineExecutor::execute
InitGas == UtilInit /\ HexIdle /\ WriteIdle /\ GasInit

NextGas ==
    \/ EvmExecute /\ UNCHANGED <<UtilOthers, hexVars, writeVars>>
    \/ GasReport /\ UNCHANGED <<UtilOthers, hexVars, writeVars>>

SpecGas == InitGas /\ [][NextGas]_vars

\* ------------------------------------------------------------------ claims

RunEnded == pc \in {"done", "failed"}
SweepStarted == bi >= 1

\* the (benchmark, backend) pairs of a report
Entries(report) == UNION {{<<b, e>> : e \in DOMAIN report[b]} : b \in DOMAIN report}

\* the entries of a report that mark a failed pair: a BenchmarkResult holds
\* statistics only, so there are none
FailedEntries(report) == {}

\* the pair at position <<b, e>> of the sweep was handed to the timing tool
Measured(b, e) ==
    \E k \in 1..Len(hyperfine_log) :
        /\ hyperfine_log[k].bench = benchmarks_to_run[b][1]
        /\ hyperfine_log[k].cmd.evm = evms_to_run[e]

\* the failures of one pair's measurement: hyperfine exits non-zero, its JSON
\* cannot be read or parsed, or it holds no result record
PairFailures ==
    {"Hyperfine failed with exit code", "Failed to read hyperfine results",
     "Failed to parse hyperfine results", "No results from hyperfine"}

\* C1: the failure of one pair's measurement does not keep a later pair from
\* being measured: when the run has ended after such a failure, every requested
\* pair has been handed to the timing tool.
C1_FailureDoesNotStopSweep ==
    (RunEnded /\ error \in PairFailures) =>
        \A b \in 1..Len(benchmarks_to_run), e \in 1..Len(evms_to_run) : Measured(b, e)

\* C2: when a sweep has ended there is a report, it holds every requested pair
\* exactly once, measured or marked failed, and the counts reconcile:
\* requested pairs = measured entries + failed entries.
C2_ReportReconciles ==
    (RunEnded /\ SweepStarted) =>
        /\ shown # None
        /\ \A b \in 1..Len(benchmarks_to_run), e \in 1..Len(evms_to_run) :
              <<benchmarks_to_run[b][1], evms_to_run[e]>> \in Entries(shown[1])
        /\ Len(benchmarks_to_run) * Len(evms_to_run) =
              Cardinality(Entries(shown[1]) \ FailedEntries(shown[1]))
              + Cardinality(FailedEntries(shown[1]))

\* C3: with an identifier the dispatch does not know among the selected backends,
\* no measurement is ever started (the run has failed before).
C3_UnknownBackendRejectedUpFront ==
    (\E k \in 1..Len(evms_to_run) : evms_to_run[k] \notin KnownEvms) =>
        hyperfine_log = <<>>

\* C6: the presence of hyperfine is checked once, before anything else; without
\* hyperfine nothing is compiled, no backend is selected, no pair is measured, and
\* a result only ever comes from an invocation of hyperfine.
C6_MissingHyperfineIsFatalUpFront ==
    /\ which_checks <= 1
    /\ pc # "start" => which_checks = 1
    /\ ~hyperfine_installed =>
          /\ pc \in {"start", "failed"}
          /\ pc = "failed" => error = "hyperfine not found"
          /\ compiled_contracts = <<>>
          /\ benchmarks = <<>>
          /\ evms_to_run = <<>>
          /\ benchmarks_to_run = <<>>
          /\ hyperfine_log = <<>>
          /\ all_results = <<>>
          /\ shown = None
          /\ file = None
    /\ \A be \in Entries(all_results) :
          \E k \in 1..Len(hyperfine_log) :
              hyperfine_log[k].bench = be[1] /\ hyperfine_log[k].cmd.evm = be[2]

\* the run has failed on the missing tool, after the one check
C6_Witness ==
    /\ ~hyperfine_installed
    /\ pc = "failed"
    /\ error = "hyperfine not found"
    /\ which_checks = 1

\* the first occurrences of the elements of a list, in order
RECURSIVE Dedup(_)
Dedup(l) ==
    IF l = <<>> THEN <<>>
    ELSE LET front == Dedup(SubSeq(l, 1, Len(l) - 1))
         IN IF l[Len(l)] \in Range(front) THEN front ELSE Append(front, l[Len(l)])

\* C7: the list selector resolves to its identifiers without duplicates, in the
\* order of their first occurrence.
C7_ListSelectorDeduplicated ==
    (sel_result # None /\ ~sel_all /\ sel_evms # None) =>
        sel_result[1].evms = Dedup(SplitTrim(sel_evms[1]))

\* C8: determine_evms never returns the empty list nor the list holding only the
\* empty identifier: a selection of zero backends is rejected.
C8_ZeroBackendsRejected ==
    (sel_result # None /\ sel_result[1].ok) =>
        sel_result[1].evms \notin {<<>>, <<EMPTY>>}

\* C9: a second run with the same compiled contracts, the same backend selection
\* and no benchmark name hands the pairs to the timing tool in the same sequence
\* as the first (as far as both runs get).
C9_SameVisitOrder ==
    (second_run /\ benchmark_name = None /\ prev.benchmark_name = None) =>
        \A k \in 1..Len(hyperfine_log) :
            k <= Len(prev.hyperfine_log) => hyperfine_log[k] = prev.hyperfine_log[k]

\* C10: a given name that the catalog holds selects exactly that entry, no name
\* selects every entry of the catalog once, and a name the catalog does not hold
\* fails the run with "not found" before any measurement, display or save.
C10_BenchmarkSelection ==
    /\ SweepStarted =>
          IF benchmark_name = None
          THEN /\ Len(benchmarks_to_run) = Cardinality(DOMAIN benchmarks)
               /\ {benchmarks_to_run[k][1] : k \in 1..Len(benchmarks_to_run)} = DOMAIN benchmarks
               /\ \A k \in 1..Len(benchmarks_to_run) :
                     benchmarks_to_run[k][2] = benchmarks[benchmarks_to_run[k][1]]
          ELSE /\ benchmark_name[1] \in DOMAIN benchmarks
               /\ benchmarks_to_run =
                     << <<benchmark_name[1], benchmarks[benchmark_name[1]]>> >>
    /\ (benchmark_name # None /\ benchmark_name[1] \notin DOMAIN benchmarks) =>
          /\ pc = "failed"
          /\ error = "Benchmark not found"
          /\ ~SweepStarted
          /\ hyperfine_log = <<>>
          /\ shown = None
          /\ file = None
    /\ (pc = "failed" /\ error = "Benchmark not found") =>
          benchmark_name # None /\ benchmark_name[1] \notin DOMAIN benchmarks

\* a name the catalog of two entries does not hold has failed the run
C10_Witness ==
    /\ pc = "failed"
    /\ error = "Benchmark not found"
    /\ benchmark_name = Some("missing")
    /\ Cardinality(DOMAIN benchmarks) = 2

\* C4: an execution that ends with a revert or a halt is reported as a valid
\* outcome, not as the error that malformed hex, a failed backend creation or a
\* VM error produce.
C4_RevertIsNotAnError ==
    (x_result # None /\ x_outcome \in {"Revert", "Halt"}) => x_result[1].kind # "Err"

\* C5: every execution of one executor starts from the freshly provisioned
\* state: the code at the contract address, the caller funded, nonce 0, empty
\* storage.
C5_FreshStatePerExecution ==
    \A k \in 1..Len(x_started) :
        x_started[k] = Provisioned(hex_decode(strip_prefix(x_bytecode)).bytes)

\* ----------------------------------------------------------- C11 .. C13

ReturnedResult == p_result # None /\ p_result[1].kind = "Ok"

\* C11: every BenchmarkResult that run_single_benchmark returns has a non-empty
\* times sequence whose length is the requested iteration count.
C11_TimesLengthIsIterations ==
    ReturnedResult =>
        /\ Len(p_result[1].value.times) = p_iterations
        /\ p_result[1].value.times # <<>>

\* C12: every BenchmarkResult that run_single_benchmark returns satisfies
\* min <= median <= max and min <= mean <= max.
C12_StatisticsOrdered ==
    ReturnedResult =>
        LET r == p_result[1].value
        IN /\ r.min <= r.median /\ r.median <= r.max
           /\ r.min <= r.mean /\ r.mean <= r.max

\* C13: a record of the export file that lacks mean, stddev, median, min, max or
\* times is rejected: a BenchmarkResult is returned only for a record that has
\* all six.
C13_MissingFieldRejected ==
    ReturnedResult =>
        /\ DOMAIN p_json.results[1].stats = StatFields
        /\ p_json.results[1].times # None

\* ------------------------------------------------------ C14, C15, C17

\* the printed blocks of all reports so far
Blocks == UNION {Range(d_printed[k]) : k \in 1..Len(d_printed)}

\* the backends of a block whose mean is within Epsilon of the least mean
TiedFastest(block) ==
    LET mean == d_results[block.bench]
    IN {e \in DOMAIN mean : mean[e] - MinOf({mean[x] : x \in DOMAIN mean}) < Epsilon}

\* C14: the backends marked fastest are those with the least mean, and all
\* backends whose mean is within 0.0001 of the least are reported as tied
\* fastest: the table marks each of them, and the relative performance listing
\* reports none of them as slower than another.
C14_TiedBackendsAllFastest ==
    \A block \in Blocks :
        /\ \A k \in 1..Len(block.table) :
              block.table[k].is_fastest <=> block.table[k].evm \in TiedFastest(block)
        /\ \A k \in 1..Len(block.relative) :
              block.relative[k].evm \in TiedFastest(block)
                  => block.relative[k].label # "slower than"

\* C15: for every benchmark of the report and every backend measured for it,
\* a ratio is reported and it is mean(B) / mean(fastest); the fastest backend
\* reports 1.00; for any number of measured backends, one included.
C15_RatioToFastest ==
    \A block \in Blocks :
        LET mean == d_results[block.bench]
            least == MinOf({mean[x] : x \in DOMAIN mean})
        IN \A e \in DOMAIN mean :
              \E k \in 1..Len(block.relative) :
                 /\ block.relative[k].evm = e
                 /\ block.relative[k].ratio = Format2(mean[e], least)

\* C15 as amended: for every benchmark of the report with two or more measured
\* backends, every backend has one line whose ratio is mean(B) / mean(fastest),
\* and the line marked fastest belongs to a backend of least mean and reports
\* 1.00; for a benchmark with one measured backend no ratio is reported.
C15_RatioToFastestAmongSeveral ==
    \A block \in Blocks :
        LET mean == d_results[block.bench]
            least == MinOf({mean[x] : x \in DOMAIN mean})
        IN IF Cardinality(DOMAIN mean) >= 2
           THEN /\ Len(block.relative) = Cardinality(DOMAIN mean)
                /\ \A e \in DOMAIN mean :
                      \E k \in 1..Len(block.relative) :
                         /\ block.relative[k].evm = e
                         /\ block.relative[k].ratio = Format2(mean[e], least)
                /\ \A k \in 1..Len(block.relative) :
                      block.relative[k].label = "fastest"
                          => /\ mean[block.relative[k].evm] = least
                             /\ block.relative[k].ratio = 100
                /\ \E k \in 1..Len(block.relative) : block.relative[k].label = "fastest"
           ELSE block.relative = <<>>

\* a report with means 0.010 and 0.050 for one benchmark: ratios 1.00 and 5.00
C15_Witness ==
    \E block \in Blocks :
        /\ d_results[block.bench] = (REVM :> 1000 @@ GUILLOTINE :> 5000)
        /\ \E k \in 1..Len(block.relative) :
              block.relative[k].evm = GUILLOTINE /\ block.relative[k].ratio = 500
        /\ \E k \in 1..Len(block.relative) :
              block.relative[k].evm = REVM /\ block.relative[k].ratio = 100

\* C17: two reports made of the same collection of results are identical, in
\* what is printed and in what is saved.
C17_SameReportTwice ==
    /\ \A a, b \in 1..Len(d_printed) : d_printed[a] = d_printed[b]
    /\ \A a, b \in 1..Len(d_json) : d_json[a] = d_json[b]

\* ------------------------------------------------------------------- C16

\* C16: an executor process exits with code 0 exactly when the backend produced
\* a successful execution outcome, whichever program it is (a guillotine runner
\* asked to measure its startup only is left aside: it is not asked to execute).
C16_ExitZeroIffSuccess ==
    (e_exit # None /\ ~e_measure_startup)
        => (e_exit[1] = 0 <=> e_outcome = "Success")

\* ------------------------------------------------------------ C18 .. C20

\* the artifact each catalog entry is built from
ArtifactFor(bench) ==
    CASE bench = "ten_thousand_hashes" -> "TenThousandHashes"
      [] bench = "snailtracer" -> "SnailTracer"
      [] bench = "erc20_transfer_bench" -> "ERC20Transfer"
      [] bench = "erc20_mint_bench" -> "ERC20Mint"
      [] bench = "erc20_approval_bench" -> "ERC20ApprovalTransfer"

CatalogNames ==
    {"ten_thousand_hashes", "snailtracer", "erc20_transfer_bench", "erc20_mint_bench",
     "erc20_approval_bench"}

CatalogBuilt == DOMAIN compiled_contracts # {}

\* C18: the catalog built from the compiled contracts has an entry exactly for
\* each rule whose artifact is compiled; each entry's key is its name, its
\* bytecode is the artifact's bytecode and its gas limit is positive.
C18_CatalogFollowsArtifacts ==
    CatalogBuilt =>
        /\ DOMAIN benchmarks \subseteq CatalogNames
        /\ \A n \in CatalogNames :
              n \in DOMAIN benchmarks <=> ArtifactFor(n) \in DOMAIN compiled_contracts
        /\ \A n \in DOMAIN benchmarks :
              /\ benchmarks[n].name = n
              /\ benchmarks[n].bytecode = compiled_contracts[ArtifactFor(n)].bytecode
              /\ benchmarks[n].gas > 0

\* a catalog of two entries built from two artifacts
C18_Witness ==
    /\ pc = "select_evms"
    /\ DOMAIN compiled_contracts = {"SnailTracer", "ERC20Mint"}
    /\ DOMAIN benchmarks = {"snailtracer", "erc20_mint_bench"}
    /\ benchmarks["erc20_mint_bench"].bytecode = "60806040523480"

AllSelected == sel_result # None /\ sel_list = None /\ sel_all

\* C19: with the all-available selector set, the resolved list is revm, then
\* geth if an evm binary is found, then guillotine, whatever the single and
\* list selectors are.
C19_AllAvailableInPriorityOrder ==
    AllSelected =>
        /\ sel_result[1].ok
        /\ sel_result[1].evms =
              IF sel_geth THEN <<REVM, GETH, GUILLOTINE>> ELSE <<REVM, GUILLOTINE>>

\* all-available resolved while a single and a list selector are given too
C19_Witness ==
    /\ AllSelected
    /\ sel_geth
    /\ sel_evm = Some(ETHREX)
    /\ sel_evms = Some(<<"ethrex", COMMA, "revm">>)
    /\ sel_result[1].evms = <<REVM, GETH, GUILLOTINE>>

\* C20: the identifiers of the all-available selection are those execute_bytecode
\* dispatches to a backend that can execute: each such backend is listed, and
\* each listed one is implemented.
C20_AllAvailableIsDispatchable ==
    AllSelected => Range(sel_result[1].evms) = {e \in SingleIds : Implemented(e)}

\* ------------------------------------------------------------ C21, C25

\* C21: every call of run_single_benchmark creates a new scratch file of its
\* own, the file at the scratch path of a call in progress is that call's, and
\* what a call reads from its scratch file was written by that call.
C21_ScratchFileIsExclusive ==
    /\ \A k \in 1..Len(m_created) : m_created[k].fresh
    /\ \A a, b \in 1..Len(m_created) : m_created[a].call = m_created[b].call => a = b
    /\ m_pc \in {"spawn", "read", "parse"} =>
          m_path \in DOMAIN m_tmp /\ m_tmp[m_path].by = m_call
    /\ \A k \in 1..Len(m_reads) : m_reads[k].by = m_reads[k].call

\* the second call of a sweep has read its own record, with a foreign file in
\* the temporary directory
C21_Witness ==
    /\ Len(m_reads) = 2
    /\ m_reads[2].call = 2
    /\ m_reads[2].json = Json(<<RunA>>)
    /\ \E q \in DOMAIN m_tmp : m_tmp[q] = Foreign

\* the invocations of hyperfine made for a call
InvocationsOf(call) == {k \in 1..Len(m_invocations) : m_invocations[k].call = call}

\* C25: for every measured pair hyperfine is invoked exactly once, with the
\* requested numbers of runs and warmup runs (10 and 3 for compare); the first
\* record of its output is the one taken, and an output without a record is an
\* error.
C25_OneInvocationFirstRecord ==
    /\ \A k \in 1..Len(m_invocations) :
          /\ m_invocations[k].runs = p_iterations
          /\ m_invocations[k].warmup = m_warmup
          /\ m_op = "compare" => m_invocations[k].runs = 10 /\ m_invocations[k].warmup = 3
    /\ \A call \in 1..MaxCalls : Cardinality(InvocationsOf(call)) <= 1
    /\ \A k \in 1..Len(m_results) :
          m_results[k].result.kind = "Ok" =>
              /\ Cardinality(InvocationsOf(m_results[k].call)) = 1
              /\ \E j \in 1..Len(m_reads) :
                    /\ m_reads[j].call = m_results[k].call
                    /\ m_reads[j].json.results # <<>>
                    /\ m_results[k].result.value.mean
                          = m_reads[j].json.results[1].stats["mean"]
    /\ \A j \in 1..Len(m_reads), k \in 1..Len(m_results) :
          (m_reads[j].call = m_results[k].call /\ m_reads[j].json = Json(<<>>))
              => m_results[k].result.kind = "Err"

\* a compare whose hyperfine left two records: the first one is returned
C25_Witness ==
    /\ m_op = "compare"
    /\ Len(m_results) >= 1
    /\ m_results[1].result.kind = "Ok"
    /\ m_reads[1].json = Json(<<RunA, RunB>>)
    /\ m_results[1].result.value.mean = 1
    /\ m_invocations[1].runs = 10

\* ------------------------------------------------------ C22, C23, C27

\* the pair at a position of the sweep: benchmarks outer, backends inner
PairAt(k) ==
    <<benchmarks_to_run[((k - 1) \div Len(evms_to_run)) + 1][1],
      evms_to_run[((k - 1) % Len(evms_to_run)) + 1]>>

\* the pairs whose measurement has returned and been recorded
Recorded == (bi - 1) * Len(evms_to_run) + (ei - 1)

\* C22: the sweep is sequential: the measurements are started in the order of
\* the pairs (benchmarks outer, backends inner), at most one measurement has
\* been started and not yet recorded, and the result map holds exactly the pairs
\* whose measurement has returned.
C22_SweepIsSequential ==
    SweepStarted =>
        /\ \A k \in 1..Len(hyperfine_log) :
              <<hyperfine_log[k].bench, hyperfine_log[k].cmd.evm>> = PairAt(k)
        /\ Recorded <= Len(hyperfine_log)
        /\ Len(hyperfine_log) <= Recorded + 1
        /\ pc = "measuring" => Len(hyperfine_log) = Recorded + 1
        /\ pc = "sweep" => Len(hyperfine_log) = Recorded
        /\ Entries(all_results) = {PairAt(k) : k \in 1..Recorded}

\* the third measurement of a sweep over two benchmarks and two backends is
\* in flight, the first two are recorded
C22_Witness ==
    /\ pc = "measuring"
    /\ Len(benchmarks_to_run) = 2
    /\ evms_to_run = <<REVM, GUILLOTINE>>
    /\ Len(hyperfine_log) = 3
    /\ Cardinality(Entries(all_results)) = 2

SweepComplete ==
    /\ SweepStarted
    /\ bi > Len(benchmarks_to_run)
    /\ Len(hyperfine_log) = Len(benchmarks_to_run) * Len(evms_to_run)

\* C23: the report is displayed and written only after the last pair of the
\* sweep has been processed; a run that ended before that has displayed and
\* written nothing.
C23_ReportOnlyAfterFullSweep ==
    /\ (shown # None \/ file # None) => SweepComplete
    /\ (pc = "failed" /\ ~SweepComplete) => (shown = None /\ file = None)

\* a run aborted in the sweep after a first pair was recorded
C23_Witness ==
    /\ pc = "failed"
    /\ SweepStarted
    /\ ~SweepComplete
    /\ DOMAIN all_results # {}
    /\ shown = None
    /\ file = None

\* C27: the commands measured for the backends of one benchmark carry the
\* bytecode, calldata and gas limit of the catalog entry, and differ only in the
\* backend identifier.
C27_SameWorkloadForAllBackends ==
    /\ \A k \in 1..Len(hyperfine_log) :
          LET entry == benchmarks[hyperfine_log[k].bench]
              cmd == hyperfine_log[k].cmd
          IN /\ cmd.bytecode = entry.bytecode
             /\ cmd.calldata = entry.calldata
             /\ cmd.gas = entry.gas
    /\ \A j, k \in 1..Len(hyperfine_log) :
          hyperfine_log[j].bench = hyperfine_log[k].bench =>
              [hyperfine_log[j].cmd EXCEPT !.evm = hyperfine_log[k].cmd.evm]
                  = hyperfine_log[k].cmd

\* snailtracer measured on revm and then on guillotine
C27_Witness ==
    /\ Len(hyperfine_log) >= 2
    /\ hyperfine_log[1].bench = "snailtracer"
    /\ hyperfine_log[2].bench = "snailtracer"
    /\ hyperfine_log[1].cmd.evm = REVM
    /\ hyperfine_log[2].cmd.evm = GUILLOTINE
    /\ hyperfine_log[2].cmd.gas = 1000000000

\* ------------------------------------------------------------------- C29

\* C29: every run of run_benchmarks ends, in Done or in a reported error, and
\* it invokes hyperfine at most n * m times for n selected benchmarks and m
\* selected backends.
C29_RunTerminates ==
    /\ <>RunEnded
    /\ [](SweepStarted =>
            Len(hyperfine_log) <= Len(benchmarks_to_run) * Len(evms_to_run))

\* a run over two benchmarks and two backends that ended in Done after four
\* invocations
C29_Witness ==
    /\ pc = "done"
    /\ Len(benchmarks_to_run) = 2
    /\ Len(evms_to_run) = 2
    /\ Len(hyperfine_log) = 4

\* ------------------------------------------------------------------- C28

\* an identifier without a comma and without whitespace at its ends
PlainId(id) ==
    /\ COMMA \notin Range(id)
    /\ id # <<>> => (id[1] # SPACE /\ id[Len(id)] # SPACE)

ComparedPlainList ==
    /\ sel_list # None
    /\ sel_result # None
    /\ sel_list[1] # <<>>
    /\ \A k \in 1..Len(sel_list[1]) : PlainId(sel_list[1][k])

\* C28: for a non-empty list of identifiers without commas and without
\* whitespace at their ends, compare runs run_benchmarks with the list selector,
\* 10 iterations and 3 warmup runs, and the backends resolved from the joined
\* list are the given list in the given order.
C28_CompareMeasuresTheGivenList ==
    ComparedPlainList =>
        /\ sel_evm = None /\ ~sel_all /\ sel_evms # None
        /\ sel_result[1].evms = sel_list[1]
        /\ sel_result[1].iterations = 10
        /\ sel_result[1].warmup = 3

\* compare revm ethrex
C28_Witness ==
    /\ ComparedPlainList
    /\ sel_list[1] = <<<<"revm">>, <<"ethrex">>>>
    /\ sel_evms = Some(<<"revm", COMMA, "ethrex">>)
    /\ sel_result[1].evms = <<<<"revm">>, <<"ethrex">>>>

\* ------------------------------------------------------------------- C24

\* to_ascii_lowercase of every character
Lower(s) ==
    [k \in 1..Len(s) |->
        IF \E j \in 1..16 : HexUpper[j] = s[k]
        THEN HexLower[CHOOSE j \in 1..16 : HexUpper[j] = s[k]]
        ELSE s[k]]

EvenHexString(s) == Len(s) % 2 = 0 /\ \A k \in 1..Len(s) : IsHexDigit(s[k])

\* C24: a string of even length made only of hex digits decodes, and the
\* encoding of the decoded bytes is the string in lower case; the encoding of
\* any bytes decodes to the same bytes.
C24_HexRoundTrip ==
    /\ (h_dir = "decode_encode" /\ h_pc \in {"middle", "done"} /\ EvenHexString(h_s)) =>
          /\ h_decoded.ok
          /\ h_pc = "done" => h_encoded = Lower(h_s)
    /\ (h_dir = "encode_decode" /\ h_pc = "done") =>
          h_decoded = [ok |-> TRUE, bytes |-> h_bytes]

\* "AF" comes back as "af"
C24_Witness ==
    /\ h_dir = "decode_encode"
    /\ h_pc = "done"
    /\ h_s = <<"A", "F">>
    /\ h_decoded = [ok |-> TRUE, bytes |-> <<175>>]
    /\ h_encoded = <<"a", "f">>

\* ------------------------------------------------------------------- C26

\* the complete JSON of the report, in one of the orders its maps iterate in
CompleteReports ==
    {Document(to_string_pretty(w_results, order)) : order \in MapOrders(w_results)}

\* C26: at every point of the saving of the report, a crash included, the file
\* at the output path is absent or unchanged, or holds the complete JSON of the
\* report, never a part of it.
C26_ReportFileIsAtomic ==
    w_pc # "idle" =>
        \/ w_file = w_prev
        \/ w_file # None /\ w_file[1] \in CompleteReports

\* ------------------------------------------------------------------- C30

\* C30: the gas_used execute reports is gas_limit minus the gas_left of the
\* engine, 0 when gas_left is larger: it lies between 0 and gas_limit and the
\* subtraction does not wrap around.
C30_GasUsedSaturates ==
    (g_pc = "done" /\ g_result[1].kind = "Ok") =>
        LET gas_left == g_engine[1].value.gas_left
            gas_used == g_result[1].value.gas_used
        IN /\ gas_used \in GasValues
           /\ 0 <= gas_used /\ gas_used <= g_gas_limit
           /\ gas_left <= g_gas_limit => gas_used + gas_left = g_gas_limit
           /\ gas_left > g_gas_limit => gas_used = 0

\* the engine reports more gas left than the limit it was given
C30_Witness ==
    /\ g_pc = "done"
    /\ g_result[1].kind = "Ok"
    /\ g_engine[1].value.gas_left > g_gas_limit
    /\ g_gas_limit > 0
    /\ g_result[1].value.gas_used = 0

====
